---- MODULE Spec2Model ----
(***************************************************************************)
(* A state-machine model of the Go execution tracer core                   *)
(* (src/src/runtime/trace.go): the trace buffers and their queues, the     *)
(* event encoder, StartTrace / StopTrace and the ReadTrace reader loop.    *)
(*                                                                         *)
(* Pointers to trace buffers are buffer numbers, 0 is the nil pointer.     *)
(* The stop-the-world sections of StartTrace and StopTrace are one step    *)
(* each; a section run under trace.lock is one step; ReadTrace, StopTrace  *)
(* and the stack dump are split where the code parks, waits or runs        *)
(* without the lock.                                                       *)
(***************************************************************************)
EXTENDS Integers, Sequences, FiniteSets, TLC

\* ------------------------------------------------------------------ bounds

\* Number of processors (len(allp)).
NumProcs == 2
\* Cap on the number of trace buffers sysAlloc hands out.
MaxBufs == 4
\* len(traceBuf.arr); 64<<10 minus the header in the code.
BufLen == 68
\* Ticks of the clock (cputicks() / traceTickDiv) in a session before StopTrace.
MaxTicks == 1
\* Cap on the number of successful StartTrace calls.
MaxSessions == 2
\* Cap on the count of trace.shutdownSema.
MaxSema == 2
\* Cap on the number of records held by the CPU-sample ring.
MaxSamples == 1
MaxOverflow == 2
\* Cap on gp.traceseq of a goroutine.
MaxSeq == 2
\* Cap on the number of events the runtime hooks emit.
MaxEmits == 2
\* uint64 arithmetic is done modulo U64 (2^64 in the code).
U64 == 4096

\* ------------------------------------------------------- program constants

traceEvBatch == 1
traceEvFrequency == 2
traceEvStack == 3
traceEvProcStart == 5
traceEvGoCreate == 13
traceEvGoStart == 14
traceEvGoSched == 17
traceEvGoBlock == 20
traceEvGoUnblock == 21
traceEvGoWaiting == 31
traceEvGoInSyscall == 32
traceEvHeapAlloc == 33
traceEvString == 37
traceEvGoStartLocal == 38
traceEvGoUnblockLocal == 39
traceEvCPUSample == 49
traceTickDiv == 64
traceGlobProc == -1
traceEvUserRegion == 47
traceEvUserLog == 48
traceEvGCSweepStart == 11
traceEvGCSweepDone == 12
traceEvGoBlockSync == 25
traceEvGoSysExit == 29
traceEvFutileWakeup == 36
traceFutileWakeup == 128
traceBytesPerNumber == 10

Procs == 0 .. (NumProcs - 1)
BufIds == 1 .. MaxBufs

\* ------------------------------------------------------------- encoding

\* uint64(x) for a (possibly negative) integer x.
Uint64(x) == x % U64

RECURSIVE VarintLen(_)
\* Number of bytes traceBuf.varint / traceAppend write for v.
VarintLen(v) == IF v < 128 THEN 1 ELSE 1 + VarintLen(v \div 128)

RECURSIVE SumVarint(_)
SumVarint(vals) ==
    IF vals = <<>> THEN 0 ELSE VarintLen(Head(vals)) + SumVarint(Tail(vals))

\* An encoded event: the type, the argument count of the header byte, whether a
\* length byte follows the header, the varints written, and the number of raw
\* bytes copied after them; hdr is the header byte, ev | narg<<traceArgCountShift
\* in byte arithmetic (ev is below 64), and len the value of the length byte.
Event(ev, narg, lenbyte, vals, raw) ==
    [ev |-> ev, narg |-> narg, lenbyte |-> lenbyte, vals |-> vals, raw |-> raw,
     hdr |-> ev + ((narg * 64) % 256), len |-> 0]

\* Bytes an event takes in traceBuf.arr.
EventSize(e) == 1 + (IF e.lenbyte THEN 1 ELSE 0) + SumVarint(e.vals) + e.raw

\* ------------------------------------------------------------- buffers

\* A zeroed traceBuf, as sysAlloc returns it (and what is left of it after
\* sysFree).
ZeroBuf == [alloc |-> FALSE, link |-> 0, lastTicks |-> 0, pos |-> 0, ev |-> <<>>]

\* buf.byte / buf.varint / copy: append one encoded event at buf.pos.
BufWrite(b, e) == [b EXCEPT !.pos = @ + EventSize(e), !.ev = Append(@, e)]

\* ------------------------------------------------------------- state

VARIABLES
    trace,      \* the fields of the global `trace` struct
    bufs,       \* the trace buffers: their headers and what was written to them
    tracebuf,   \* p.tracebuf of every processor
    cputicks,   \* the value cputicks() returns
    nanotime,   \* the value nanotime() returns
    fatal,      \* the message of the throw that aborted the process, or ""
    sched,      \* sched.sysmonlock and whether the world is stopped
    gstate,     \* gp.traceseq and gp.tracelastp of every goroutine
    reader,     \* per goroutine calling ReadTrace: where it is in ReadTrace
    stopper,    \* where the goroutine calling StopTrace is
    sysexit,    \* a thread without a P that saw trace.enabled and is about to emit
    emitter,    \* per processor: where the goroutine emitting a user annotation is
    sweep,      \* p.traceSweep, p.traceSwept and p.traceReclaimed of every processor
    sampler,    \* per thread without a P: where its signal handler is in traceCPUSample
    out,        \* what the calls of StartTrace, StopTrace and ReadTrace returned
    hist        \* observations of the run the properties are stated over

vars == <<trace, bufs, tracebuf, cputicks, nanotime, fatal, sched, gstate, reader, stopper, sysexit,
          emitter, sweep, sampler, out, hist>>

\* The memory the tracer's functions work on, as one value: the operators below
\* take it and return it changed. ret is the value the function returns, local
\* and tmp are the local variables bufp and tmpbuf of the caller; blocked says
\* the function cannot proceed (it waits for a lock, or the model is out of
\* buffers).
Mem == [trace |-> trace, bufs |-> bufs, tracebuf |-> tracebuf, fatal |-> fatal,
        sched |-> sched, g |-> gstate, sweep |-> sweep, local |-> 0, tmp |-> <<>>, ret |-> 0,
        blocked |-> FALSE]

\* throw(msg): the first throw aborts the process.
Throw(m, msg) == IF m.fatal = "" THEN [m EXCEPT !.fatal = msg] ELSE m

\* The goroutines: the one calling StartTrace and StopTrace (goid 1, the main
\* goroutine) and the ones calling ReadTrace.
MainG == 1
Reader1 == 2
Reader2 == 3

\* Two more goroutines StartTrace may find: one that is dead (_Gdead) and one
\* that is in a system call (_Gsyscall).
DeadG == 8
SyscallG == 9

\* The goroutine running user code on processor p; all of them run the same
\* function.
Worker(p) == 4 + p

\* callers / gcallers of the unwinder for goroutine g: its frames, the last
\* being runtime.goexit, for the main goroutine preceded by runtime.main.
pcGoexit == 1
pcRuntimeMain == 2
Callers(g) == IF g = MainG THEN <<100 + g, pcRuntimeMain, pcGoexit>>
              ELSE IF g >= Worker(0) THEN <<110, pcGoexit>>
              ELSE <<100 + g, pcGoexit>>

\* startPCforTrace(gp.startpc) + sys.PCQuantum of goroutine g.
StartPC(g) == 200 + g

\* The function whose memory is m does not go on: it waits, or has thrown.
Dead(m) == m.blocked \/ m.fatal # ""

\* ------------------------------------------------------------- full queue

\* traceFullQueue queues buf into queue of full buffers.
traceFullQueue(m, buf) ==
    IF m.trace.fullHead = 0
    THEN [m EXCEPT !.bufs[buf].link = 0, !.trace.fullHead = buf, !.trace.fullTail = buf]
    ELSE [m EXCEPT !.bufs[buf].link = 0, !.bufs[m.trace.fullTail].link = buf,
                   !.trace.fullTail = buf]

\* traceFullDequeue dequeues from queue of full buffers; ret is the buffer.
traceFullDequeue(m) ==
    LET buf == m.trace.fullHead
    IN IF buf = 0 THEN [m EXCEPT !.ret = 0]
       ELSE [m EXCEPT !.trace.fullHead = m.bufs[buf].link,
                      !.trace.fullTail = IF m.bufs[buf].link = 0 THEN 0 ELSE @,
                      !.bufs[buf].link = 0,
                      !.ret = buf]

\* ------------------------------------------------------------- traceFlush

\* sysAlloc(unsafe.Sizeof(traceBuf{})): the lowest buffer not allocated, 0 when
\* the model's MaxBufs are all in use.
sysAlloc(m) ==
    LET free == {b \in BufIds : ~m.bufs[b].alloc}
    IN IF free = {} THEN 0 ELSE CHOOSE b \in free : \A c \in free : b <= c

\* The part of traceFlush that initializes the buffer buf for a new batch.
traceFlushInit(m, buf, pid) ==
    LET t0 == cputicks \div traceTickDiv
        ticks == IF t0 = m.bufs[buf].lastTicks THEN Uint64(m.bufs[buf].lastTicks + 1) ELSE t0
    IN [m EXCEPT !.bufs[buf] = BufWrite([@ EXCEPT !.link = 0, !.pos = 0, !.ev = <<>>,
                                                     !.lastTicks = ticks],
                                          Event(traceEvBatch, 1, FALSE, <<Uint64(pid), ticks>>, 0)),
                 !.ret = buf]

\* The part of traceFlush that takes the buffer: e is what it read from
\* trace.empty.
traceFlushTake(m, e, pid) ==
    IF e # 0
    THEN traceFlushInit([m EXCEPT !.trace.empty = m.bufs[e].link], e, pid)
    ELSE IF sysAlloc(m) = 0 THEN [m EXCEPT !.blocked = TRUE]
    ELSE traceFlushInit([m EXCEPT !.bufs[sysAlloc(m)] = [ZeroBuf EXCEPT !.alloc = TRUE]],
                        sysAlloc(m), pid)

\* The part of traceFlush that queues the full buffer.
traceFlushQueue(m, buf) == IF buf # 0 THEN traceFullQueue(m, buf) ELSE m

\* dolock of traceFlush: whether it takes trace.lock; curg is getg().m.curg.
traceFlushDolock(m, curg) == m.trace.lockOwner = 0 \/ m.trace.lockOwner # curg

\* traceFlush puts buf onto stack of full buffers and returns an empty buffer
\* (in ret). It is called by a thread with getg().m.curg = curg.
traceFlush(m, curg, buf, pid) ==
    IF traceFlushDolock(m, curg) /\ m.trace.lock # 0 THEN [m EXCEPT !.blocked = TRUE]
    ELSE traceFlushTake(traceFlushQueue(m, buf), m.trace.empty, pid)

\* ------------------------------------------------------------- stack table

\* The hash values memhash produces and the number of buckets of
\* traceStackTable.tab (2^64 and 1 << 13 in the program), small enough here for
\* different stacks to share a hash and a bucket.
HashSpace == 4
NumBuckets == 2

RECURSIVE SumPCs(_)
SumPCs(pcs) == IF pcs = <<>> THEN 0 ELSE Head(pcs) + SumPCs(Tail(pcs))

\* memhash of the bytes of pcs.
memhash(pcs) == SumPCs(pcs) % HashSpace

\* The records of the bucket part, as positions of tab.tab; put links a new
\* record at the head of its bucket, so the chain runs from the latest down.
Chain(tab, part) ==
    {i \in 1 .. Len(tab.tab) : memhash(tab.tab[i].stk) % NumBuckets = part}

\* A faulty find, for comparison: it compares the hash and the length only.
findByHash(tab, pcs) ==
    LET hash == memhash(pcs)
        hit == {i \in Chain(tab, hash % NumBuckets) :
                   /\ memhash(tab.tab[i].stk) = hash
                   /\ Len(tab.tab[i].stk) = Len(pcs)}
    IN IF hit = {} THEN 0
       ELSE tab.tab[CHOOSE i \in hit : \A j \in hit : j <= i].id

\* traceStackTable.find: the id of pcs in the table, 0 if it has none. It
\* walks the bucket of the hash and returns the first record with the same
\* hash, the same length and the same PCs.
find(tab, pcs) ==
    LET hash == memhash(pcs)
        hit == {i \in Chain(tab, hash % NumBuckets) :
                   /\ memhash(tab.tab[i].stk) = hash
                   /\ Len(tab.tab[i].stk) = Len(pcs)
                   /\ \A k \in 1 .. Len(pcs) : tab.tab[i].stk[k] = pcs[k]}
    IN IF hit = {} THEN 0
       ELSE tab.tab[CHOOSE i \in hit : \A j \in hit : j <= i].id

\* A faulty putLocked, for comparison: no second lookup under tab.lock.
putLockedNoCheck(m, pcs) ==
    [m EXCEPT !.trace.stackTab.seq = @ + 1,
              !.trace.stackTab.tab = Append(@, [id |-> m.trace.stackTab.seq + 1, stk |-> pcs]),
              !.ret = m.trace.stackTab.seq + 1]

\* The part of traceStackTable.put under tab.lock: "Now, double check under
\* the mutex", then "Create new record".
putLocked(m, pcs) ==
    IF find(m.trace.stackTab, pcs) # 0 THEN [m EXCEPT !.ret = find(m.trace.stackTab, pcs)]
    ELSE [m EXCEPT !.trace.stackTab.seq = @ + 1,
                   !.trace.stackTab.tab = Append(@, [id |-> m.trace.stackTab.seq + 1, stk |-> pcs]),
                   !.ret = m.trace.stackTab.seq + 1]

\* traceStackTable.put returns a unique id for the stack trace pcs (in ret) and
\* caches it in the table, if it sees the trace for the first time.
put(m, pcs) ==
    IF pcs = <<>> THEN [m EXCEPT !.ret = 0]
    ELSE IF find(m.trace.stackTab, pcs) # 0 THEN [m EXCEPT !.ret = find(m.trace.stackTab, pcs)]
    ELSE putLocked(m, pcs)

\* The frames traceStackID keeps of the stack of goroutine curg: all but
\* runtime.goexit and, for the main goroutine, runtime.main.
traceStackFrames(curg) ==
    LET n0 == Len(Callers(curg))
        n1 == IF n0 > 0 THEN n0 - 1 ELSE n0
        n2 == IF n1 > 0 /\ curg = MainG THEN n1 - 1 ELSE n1
    IN SubSeq(Callers(curg), 1, n2)

\* traceStackID: the id of the stack of goroutine curg (in ret).
traceStackID(m, curg) == put(m, traceStackFrames(curg))

\* ------------------------------------------------------------- event encoder

\* The buffer pointer bufp points at: p.tracebuf of a processor, trace.buf,
\* trace.cpuLogBuf, or a local variable of the caller.
BufAt(m, site) ==
    CASE site[1] = "p" -> m.tracebuf[site[2]]
      [] site[1] = "buf" -> m.trace.buf
      [] site[1] = "cpuLogBuf" -> m.trace.cpuLogBuf
      [] OTHER -> m.local

\* bufp.set(b)
SetBufAt(m, site, b) ==
    CASE site[1] = "p" -> [m EXCEPT !.tracebuf[site[2]] = b]
      [] site[1] = "buf" -> [m EXCEPT !.trace.buf = b]
      [] site[1] = "cpuLogBuf" -> [m EXCEPT !.trace.cpuLogBuf = b]
      [] OTHER -> [m EXCEPT !.local = b]

\* bufp.set(traceFlush(...)): f is the memory traceFlush left.
SetFlushed(f, site) == IF Dead(f) THEN f ELSE SetBufAt(f, site, f.ret)

\* Whether a writer of size bytes has to flush the buffer at site first.
NeedFlush(m, site, size) ==
    BufAt(m, site) = 0 \/ BufLen - m.bufs[BufAt(m, site)].pos < size

\* The room check every writer makes: flush when there is no buffer or fewer
\* than size bytes are left in it.
Reserve(m, curg, site, pid, size) ==
    IF NeedFlush(m, site, size)
    THEN SetFlushed(traceFlush(m, curg, BufAt(m, site), pid), site)
    ELSE m

\* A faulty traceEventBytes, for comparison: the argument count is not limited
\* to the two bits the header byte has for it.
traceEventBytesNoClamp(ev, tickDiff, args, stk) ==
    LET narg == Len(args) + Len(stk)
        e == Event(ev, narg, narg = 3, <<tickDiff>> \o args \o stk, 0)
    IN [e EXCEPT !.len = IF narg = 3 THEN (EventSize(e) - 2) % 256 ELSE 0]

\* The bytes traceEventLocked writes: the event with its tick difference, its
\* arguments and the stack id stk (a sequence, empty when it has none).
traceEventBytes(ev, tickDiff, args, stk) ==
    LET n0 == Len(args) + Len(stk)
        narg == IF n0 > 3 THEN 3 ELSE n0
        e == Event(ev, narg, narg = 3, <<tickDiff>> \o args \o stk, 0)
    IN [e EXCEPT !.len = IF narg = 3 THEN (EventSize(e) - 2) % 256 ELSE 0]

\* The part of traceEventLocked after the room check: the timestamp and the
\* bytes of the event; the stack id is in m.ret when the event captures one.
\* The length byte is filled in last: it keeps the 0 it was reserved with when
\* the event runs over the end of buf.arr (the write panics) or over maxSize.
traceEventWrite(m, maxSize, site, ev, stackID, skip, args) ==
    IF Dead(m) THEN m ELSE
    LET buf == BufAt(m, site)
        d0 == Uint64((cputicks \div traceTickDiv) - m.bufs[buf].lastTicks)
        ticks == IF d0 = 0 THEN Uint64(m.bufs[buf].lastTicks + 1) ELSE cputicks \div traceTickDiv
        stk == IF stackID # 0 THEN <<stackID>>
               ELSE IF skip = 0 THEN <<0>>
               ELSE IF skip > 0 THEN <<m.ret>> ELSE <<>>
        e == traceEventBytes(ev, IF d0 = 0 THEN 1 ELSE d0, args, stk)
    IN IF m.bufs[buf].pos + EventSize(e) > BufLen
       THEN Throw([m EXCEPT !.bufs[buf] =
                       BufWrite([@ EXCEPT !.lastTicks = ticks], [e EXCEPT !.len = 0])],
                  "index out of range")
       ELSE IF EventSize(e) > maxSize
       THEN Throw([m EXCEPT !.bufs[buf] =
                       BufWrite([@ EXCEPT !.lastTicks = ticks], [e EXCEPT !.len = 0])],
                  "invalid length of trace event")
       ELSE [m EXCEPT !.bufs[buf] = BufWrite([@ EXCEPT !.lastTicks = ticks], e)]

\* The stack capture of traceEventLocked (skip > 0 and no explicit stack id).
traceEventStack(m, curg, stackID, skip) ==
    IF Dead(m) \/ stackID # 0 \/ skip <= 0 THEN m ELSE traceStackID(m, curg)

\* traceEventLocked writes a single event of type ev to the trace buffer at
\* site, flushing the buffer if necessary.
traceEventLocked(m, extraBytes, curg, pid, site, ev, stackID, skip, args) ==
    traceEventWrite(
        traceEventStack(Reserve(m, curg, site, pid, 2 + 5 * traceBytesPerNumber + extraBytes),
                        curg, stackID, skip),
        2 + 5 * traceBytesPerNumber + extraBytes, site, ev, stackID, skip, args)

\* buf.varint(traceStackID(...)) of traceEventLocked on its own: the stack id
\* (in m.ret) is written after the event's other arguments.
AppendStack(m, site) ==
    IF Dead(m) THEN m
    ELSE [m EXCEPT !.bufs[BufAt(m, site)] =
              [@ EXCEPT !.pos = @ + VarintLen(m.ret),
                        !.ev[Len(m.bufs[BufAt(m, site)].ev)].vals = Append(@, m.ret),
                        !.ev[Len(m.bufs[BufAt(m, site)].ev)].len = @ + VarintLen(m.ret)]]

\* traceAcquireBuffer: the buffer of a thread running on processor p, or
\* without a processor (p = traceGlobProc).
SiteOf(p) == IF p = traceGlobProc THEN <<"buf">> ELSE <<"p", p>>

\* A faulty traceEvent, for comparison: trace.enabled is not checked again
\* once the buffer is acquired.
traceEventNoCheck(m, curg, p, startingtrace, ev, skip, args) ==
    IF Dead(m) THEN m
    ELSE traceEventLocked(m, 0, curg, p, SiteOf(p), ev, 0, skip, args)

\* traceEvent writes a single event to trace buffer, flushing the buffer if
\* necessary. startingtrace is mp.startingtrace of the calling thread.
traceEvent(m, curg, p, startingtrace, ev, skip, args) ==
    IF Dead(m) \/ (~m.trace.enabled /\ ~startingtrace) THEN m
    ELSE traceEventLocked(m, 0, curg, p, SiteOf(p), ev, 0, skip, args)

\* ------------------------------------------------------------- string table

\* The id of string s in trace.strings, 0 when it has none.
stringID(tab, s) ==
    LET hit == {i \in 1 .. Len(tab.m) : tab.m[i].s = s}
    IN IF hit = {} THEN 0 ELSE tab.m[CHOOSE i \in hit : TRUE].id

\* The part of traceString that writes the String event for the new id, after
\* the room check; a string is the sequence of its bytes.
traceStringWrite(m, site, id, s) ==
    IF Dead(m) THEN m ELSE
    LET buf == BufAt(m, site)
        room == BufLen - (m.bufs[buf].pos + 1 + VarintLen(id))
        slen == IF room < Len(s) + traceBytesPerNumber THEN room ELSE Len(s)
        left == room - VarintLen(slen)
        copied == IF slen < left THEN slen ELSE left
    IN IF slen > Len(s)
       THEN Throw([m EXCEPT !.bufs[buf] = BufWrite(@, Event(traceEvString, 0, FALSE, <<id, slen>>, 0)),
                            !.ret = id],
                  "slice bounds out of range")
       ELSE [m EXCEPT !.bufs[buf] = BufWrite(@, Event(traceEvString, 0, FALSE, <<id, slen>>, copied)),
                      !.ret = id]

\* traceString adds a string to the trace.strings and returns the id (in ret);
\* the first time it writes a String event to the buffer at site.
traceString(m, curg, site, pid, s) ==
    IF Dead(m) THEN m
    ELSE IF s = <<>> THEN [m EXCEPT !.ret = 0]
    ELSE IF stringID(m.trace.strings, s) # 0 THEN [m EXCEPT !.ret = stringID(m.trace.strings, s)]
    ELSE IF m.trace.strings.isnil THEN Throw(m, "assignment to entry in nil map")
    ELSE traceStringWrite(
             Reserve([m EXCEPT !.trace.stringSeq = @ + 1,
                               !.trace.strings.m = Append(@, [s |-> s, id |-> m.trace.stringSeq + 1])],
                     curg, site, pid, 1 + 2 * traceBytesPerNumber + Len(s)),
             site, m.trace.stringSeq + 1, s)

\* The part of traceString under trace.stringsLock: the id of s (in ret),
\* a new one if s has none.
traceStringLocked(m, s) ==
    IF s = <<>> THEN [m EXCEPT !.ret = 0]
    ELSE IF stringID(m.trace.strings, s) # 0 THEN [m EXCEPT !.ret = stringID(m.trace.strings, s)]
    ELSE IF m.trace.strings.isnil THEN Throw(m, "assignment to entry in nil map")
    ELSE [m EXCEPT !.trace.stringSeq = @ + 1,
                   !.trace.strings.m = Append(@, [s |-> s, id |-> m.trace.stringSeq + 1]),
                   !.ret = m.trace.stringSeq + 1]

\* The part of traceString after unlock(&trace.stringsLock), for a string s
\* that got the new id: the String event.
traceStringEvent(m, curg, site, pid, id, s) ==
    traceStringWrite(Reserve(m, curg, site, pid, 1 + 2 * traceBytesPerNumber + Len(s)),
                     site, id, s)

\* trace_userRegion(1, 0, e.name) on processor p after traceString took the
\* id e.id: the String event if the id is new, then the UserRegion event. The
\* event captures the stack (skip = 3); with skip = -1 this is the event up to
\* its stack id.
trace_userRegion(m, p, e, skip) ==
    traceEventLocked(IF e.new
                     THEN traceStringEvent(m, Worker(p), SiteOf(p), p, e.id, e.name)
                     ELSE m,
                     0, Worker(p), p, SiteOf(p), traceEvUserRegion, 0, skip, <<1, 0, e.id>>)

\* The end of trace_userLog, after traceEventLocked: "double-check the message
\* and its length can fit. Otherwise, truncate the message", then the length
\* and the bytes of the message follow the event. buf.varint past the end of
\* buf.arr and message[:slen] past the end of the message panic.
trace_userLogValue(m, site, message) ==
    IF Dead(m) THEN m ELSE
    LET buf == BufAt(m, site)
        n == Len(m.bufs[buf].ev)
        room == BufLen - m.bufs[buf].pos
        slen == IF room < Len(message) + traceBytesPerNumber THEN room ELSE Len(message)
        left == room - VarintLen(slen)
        copied == IF slen < left THEN slen ELSE left
    IN IF left < 0 THEN Throw(m, "index out of range")
       ELSE IF slen > Len(message)
       THEN Throw([m EXCEPT !.bufs[buf].pos = @ + VarintLen(slen),
                            !.bufs[buf].ev[n].vals = Append(@, slen)],
                  "slice bounds out of range")
       ELSE [m EXCEPT !.bufs[buf].pos = @ + VarintLen(slen) + copied,
                      !.bufs[buf].ev[n].vals = Append(@, slen),
                      !.bufs[buf].ev[n].raw = copied]

\* trace_userLog(id, category, message) on processor p, from
\* traceAcquireBuffer on: the String event of the category if it is new, the
\* UserLog event with room reserved for the message, then the message.
trace_userLog(m, p, id, category, message) ==
    IF Dead(m) \/ ~m.trace.enabled THEN m ELSE
    LET s == traceString(m, Worker(p), SiteOf(p), p, category)
    IN trace_userLogValue(
           traceEventLocked(s, traceBytesPerNumber + Len(message), Worker(p), p, SiteOf(p),
                            traceEvUserLog, 0, 3, <<id, s.ret>>),
           SiteOf(p), message)

\* ------------------------------------------------------------- CPU samples

\* A faulty Sample, for comparison: the low bit of the header is not set.
SampleNoBit(now, pp, goid, stk) ==
    [ts |-> now, hdr0 |-> IF pp # traceGlobProc THEN 2 * pp ELSE 2,
     hdr1 |-> goid, stk |-> stk]

\* One record of the CPU-sample ring as traceCPUSample writes it: the
\* timestamp, the two header words and the stack.
Sample(now, pp, goid, stk) ==
    [ts |-> now, hdr0 |-> IF pp # traceGlobProc THEN 2 * pp + 1 ELSE 2,
     hdr1 |-> goid, stk |-> stk]

\* log.write(nil, now, hdr[:], stk): the ring takes record r, or counts it as
\* lost when it is full (the count stops at MaxOverflow here).
profBufWrite(ring, r) ==
    IF Len(ring.data) < MaxSamples THEN [ring EXCEPT !.data = Append(@, r)]
    ELSE [ring EXCEPT !.overflow = IF @ < MaxOverflow THEN @ + 1 ELSE @]

\* trace.cpuLogRead.read until it returns nothing: the records, then the
\* overflow record if samples were lost, "all header values set to zero", its
\* one stack word the count.
profBufRead(ring) ==
    ring.data \o (IF ring.overflow > 0
                  THEN <<[ts |-> 0, hdr0 |-> 0, hdr1 |-> 0, stk |-> <<ring.overflow>>]>>
                  ELSE <<>>)

\* traceCPUSample, from the signal handler of a thread running goroutine gp on
\* processor pp: writes one record to the ring, unless the ring is full.
traceCPUSample(m, gp, pp, stk) ==
    IF ~m.trace.enabled THEN m
    ELSE IF m.trace.signalLock # 0 THEN [m EXCEPT !.blocked = TRUE]
    ELSE IF m.trace.cpuLogWrite
    THEN [m EXCEPT !.trace.cpuLogRead = profBufWrite(@, Sample(cputicks, pp, gp, stk))]
    ELSE m

\* traceCPUSample from the test of trace.enabled to the load of
\* trace.cpuLogWrite: the compare-and-swap of trace.signalLock succeeded.
traceCPUSampleAcquire(m) == [m EXCEPT !.trace.signalLock = 1]

\* What the handler holds after atomic.Loadp(&trace.cpuLogWrite).
traceCPUSampleLog(t) ==
    IF ~t.cpuLogWrite THEN "nil" ELSE IF t.cpuLogRead.closed THEN "closed" ELSE "open"

\* A faulty end of traceCPUSample, for comparison: trace.signalLock is
\* released only after a write.
traceCPUSampleWriteKeep(m, log, r) ==
    IF log = "nil" THEN m
    ELSE IF log = "dropped" THEN [m EXCEPT !.trace.signalLock = 0]
    ELSE [m EXCEPT !.trace.cpuLogRead = profBufWrite(@, r), !.trace.signalLock = 0]

\* The end of traceCPUSample: log.write if the pointer loaded is not nil (the
\* ring takes the record also when it was closed since; a ring that
\* trace.cpuLogRead no longer points to takes it out of sight), then
\* trace.signalLock.Store(0).
traceCPUSampleWrite(m, log, r) ==
    IF log \in {"nil", "dropped"} THEN [m EXCEPT !.trace.signalLock = 0]
    ELSE [m EXCEPT !.trace.cpuLogRead = profBufWrite(@, r), !.trace.signalLock = 0]

\* The rings the handlers hold, after StopTrace changed trace.cpuLogRead to
\* ring: a ring is closed by StopTrace and then dropped.
Aliased(sm, ring) ==
    [p \in DOMAIN sm |->
        IF sm[p].log \in {"open", "closed"}
        THEN [sm[p] EXCEPT !.log = IF ring.isnil THEN "dropped"
                                   ELSE IF ring.closed THEN "closed" ELSE "open"]
        ELSE sm[p]]

\* The part of traceReadCPU that makes sure trace.cpuLogBuf is there.
traceReadCPUBuf(m, curg) ==
    IF m.trace.cpuLogBuf = 0
    THEN SetFlushed(traceFlush(m, curg, 0, 0), <<"cpuLogBuf">>)
    ELSE m

\* ppid of traceReadCPU: data[2] >> 1, or ^uint64(0) if the low bit of
\* data[2] is not set.
traceReadCPUPid(r) == IF r.hdr0 % 2 # 0 THEN r.hdr0 \div 2 ELSE U64 - 1

\* "empty" of traceReadCPU: the record looks like an overflow record.
traceReadCPUEmpty(r) == Len(r.stk) = 1 /\ r.hdr0 = 0 /\ r.hdr1 = 0

\* The part of traceReadCPU that writes the CPUSample event of record r, whose
\* stack id is in m.ret.
traceReadCPUEvent(m, curg, r) ==
    IF Dead(m) THEN m
    ELSE traceEventLocked(m, 0, curg, 0, <<"cpuLogBuf">>, traceEvCPUSample, m.ret, 1,
                          <<r.ts \div traceTickDiv, traceReadCPUPid(r), r.hdr1>>)

\* The stack traceReadCPU interns for record r.
traceReadCPUStack(m, r) == IF Dead(m) THEN m ELSE put(m, r.stk)

RECURSIVE traceReadCPULoop(_, _, _)
\* The inner loop of traceReadCPU over the records read from the ring.
traceReadCPULoop(m, curg, data) ==
    IF data = <<>> \/ Dead(m) THEN m
    ELSE IF traceReadCPUEmpty(Head(data))
    THEN traceReadCPULoop(m, curg, Tail(data))
    ELSE traceReadCPULoop(
             traceReadCPUEvent(traceReadCPUStack(traceReadCPUBuf(m, curg), Head(data)),
                               curg, Head(data)),
             curg, Tail(data))

\* traceReadCPU drains trace.cpuLogRead into CPUSample events in
\* trace.cpuLogBuf. A nil ring reads as empty.
traceReadCPU(m, curg) ==
    IF Dead(m) \/ m.trace.cpuLogRead.isnil THEN m
    ELSE traceReadCPULoop([m EXCEPT !.trace.cpuLogRead.data = <<>>,
                                    !.trace.cpuLogRead.overflow = 0],
                          curg, profBufRead(m.trace.cpuLogRead))

\* ------------------------------------------------------------- stack dump

\* The symbolizer: the frame of a PC.
FrameOf(pc) == [PC |-> pc, Function |-> <<pc % 100>>, File |-> <<46>>, Line |-> 7]

\* tmpbuf = traceAppend(tmpbuf, ...) with the numbers pre, the id a
\* traceString call just returned, and the numbers post.
tmpAppendRet(m, pre, post) ==
    IF Dead(m) THEN m ELSE [m EXCEPT !.tmp = @ \o pre \o <<m.ret>> \o post]

\* traceFrameForPC records the frame information of pc: it interns the
\* function name and the file name; dump appends the frame's four numbers
\* (PC, funcID, fileID, line) to tmpbuf.
traceFrameForPC(m, curg, pc) ==
    tmpAppendRet(
        traceString(
            tmpAppendRet(traceString(m, curg, <<"local">>, 0, FrameOf(pc).Function),
                         <<FrameOf(pc).PC>>, <<>>),
            curg, <<"local">>, 0, FrameOf(pc).File),
        <<>>, <<FrameOf(pc).Line>>)

RECURSIVE dumpFrames(_, _, _)
\* The loop of dump over the frames pcs of one stack.
dumpFrames(m, curg, pcs) ==
    IF Dead(m) \/ pcs = <<>> THEN m
    ELSE dumpFrames(traceFrameForPC(m, curg, Head(pcs)), curg, Tail(pcs))

\* "Now copy to the buffer", the room check: the Stack record of tmpbuf needs
\* 1 + traceBytesPerNumber + len(tmpbuf) bytes.
dumpStackRoom(m, curg) ==
    IF Dead(m) THEN m
    ELSE IF BufLen - m.bufs[m.local].pos < 1 + traceBytesPerNumber + SumVarint(m.tmp)
    THEN SetFlushed(traceFlush(m, curg, m.local, 0), <<"local">>)
    ELSE m

\* "Now copy to the buffer", the bytes: the Stack record of tmpbuf.
dumpStackCopy(m) ==
    IF Dead(m) THEN m
    ELSE [m EXCEPT !.bufs[m.local] =
              BufWrite(@, Event(traceEvStack, 3, FALSE, <<SumVarint(m.tmp)>> \o m.tmp, 0))]

RECURSIVE dumpStacks(_, _, _)
\* The loop of dump over the stacks of the table.
dumpStacks(m, curg, stks) ==
    IF Dead(m) \/ stks = <<>> THEN m
    ELSE dumpStacks(
             dumpStackCopy(dumpStackRoom(
                 dumpFrames([m EXCEPT !.tmp = <<Head(stks).id, Len(Head(stks).stk)>>],
                            curg, Head(stks).stk),
                 curg)),
             curg, Tail(stks))

\* traceStackTable.dump up to its lock(&trace.lock): takes a buffer and writes
\* all cached stacks to trace buffers; the buffer it ends with is in local.
dumpWrite(m, curg) ==
    dumpStacks(SetFlushed(traceFlush(m, curg, 0, 0), <<"local">>), curg, m.trace.stackTab.tab)

\* The rest of traceStackTable.dump: queues the last buffer bufp, releases all
\* memory and resets the table.
dumpFinish(m, bufp) ==
    [traceFullQueue(m, bufp) EXCEPT !.trace.stackTab = [seq |-> 0, tab |-> <<>>]]

\* ------------------------------------------------------------- runtime hooks

\* A faulty traceSeq, for comparison: gp.traceseq is not incremented.
traceSeqKeep(m, gp, p) == [m EXCEPT !.g[gp].tracelastp = p]

\* The sequence number and last processor traceGoStart and traceGoUnpark
\* record for goroutine gp on processor p.
traceSeq(m, gp, p) ==
    [m EXCEPT !.g[gp] = [traceseq |-> @.traceseq + 1, tracelastp |-> p]]

\* traceGoStart: the goroutine curg starts running on processor p.
traceGoStart(m, curg, p, startingtrace) ==
    IF Dead(m) THEN m
    ELSE IF m.g[curg].tracelastp = p
    THEN traceEvent(traceSeq(m, curg, p), curg, p, startingtrace, traceEvGoStartLocal, -1,
                    <<curg>>)
    ELSE traceEvent(traceSeq(m, curg, p), curg, p, startingtrace, traceEvGoStart, -1,
                    <<curg, m.g[curg].traceseq + 1>>)

\* traceGoUnpark: a thread on processor p with getg().m.curg = curg unblocks
\* goroutine gp.
traceGoUnpark(m, curg, p, gp, skip) ==
    IF Dead(m) THEN m
    ELSE IF m.g[gp].tracelastp = p
    THEN traceEvent(traceSeq(m, gp, p), curg, p, FALSE, traceEvGoUnblockLocal, skip, <<gp>>)
    ELSE traceEvent(traceSeq(m, gp, p), curg, p, FALSE, traceEvGoUnblock, skip,
                    <<gp, m.g[gp].traceseq + 1>>)

\* traceGoSched: the goroutine curg, running on processor p, yields.
traceGoSched(m, curg, p) ==
    traceEvent([m EXCEPT !.g[curg].tracelastp = p], curg, p, FALSE, traceEvGoSched, 1, <<>>)

\* A faulty traceGoSysExit, for comparison: a tick older than the trace is
\* passed on.
traceGoSysExitKeep(m, curg, p, ts) ==
    traceEvent(traceSeq(m, curg, p), curg, p, FALSE, traceEvGoSysExit, -1,
               <<curg, m.g[curg].traceseq + 1, Uint64(ts) \div traceTickDiv>>)

\* traceGoSysExit: the goroutine curg, running on processor p, is started
\* after a system call it left at cputicks() = ts (0 when not recorded).
traceGoSysExit(m, curg, p, ts) ==
    traceEvent(traceSeq(m, curg, p), curg, p, FALSE, traceEvGoSysExit, -1,
               <<curg, m.g[curg].traceseq + 1,
                 Uint64(IF ts # 0 /\ ts < m.trace.ticksStart THEN 0 ELSE ts) \div traceTickDiv>>)

\* traceGCSweepStart on processor p: prepares to trace a sweep loop.
traceGCSweepStart(m, p) ==
    IF m.sweep[p].traceSweep THEN Throw(m, "double traceGCSweepStart")
    ELSE [m EXCEPT !.sweep[p] = [traceSweep |-> TRUE, traceSwept |-> 0, traceReclaimed |-> 0]]

\* A faulty traceGCSweepSpan, for comparison: every span of a sweep loop
\* emits GCSweepStart.
traceGCSweepSpanEach(m, curg, p, bytesSwept) ==
    IF m.sweep[p].traceSweep
    THEN [traceEvent(m, curg, p, FALSE, traceEvGCSweepStart, 1, <<>>)
             EXCEPT !.sweep[p].traceSwept = Uint64(@ + bytesSwept)]
    ELSE m

\* traceGCSweepSpan on processor p: traces the sweep of a span of bytesSwept
\* bytes by goroutine curg.
traceGCSweepSpan(m, curg, p, bytesSwept) ==
    IF m.sweep[p].traceSweep
    THEN [(IF m.sweep[p].traceSwept = 0
           THEN traceEvent(m, curg, p, FALSE, traceEvGCSweepStart, 1, <<>>)
           ELSE m) EXCEPT !.sweep[p].traceSwept = Uint64(@ + bytesSwept)]
    ELSE m

\* traceGCSweepDone on processor p.
traceGCSweepDone(m, curg, p) ==
    IF ~m.sweep[p].traceSweep THEN Throw(m, "missing traceGCSweepStart")
    ELSE [(IF m.sweep[p].traceSwept # 0
           THEN traceEvent(m, curg, p, FALSE, traceEvGCSweepDone, -1,
                           <<m.sweep[p].traceSwept, m.sweep[p].traceReclaimed>>)
           ELSE m) EXCEPT !.sweep[p].traceSweep = FALSE]

\* traceEv&traceFutileWakeup != 0, for a byte traceEv.
Futile(traceEv) == (traceEv \div traceFutileWakeup) % 2 = 1

\* A faulty traceGoPark, for comparison: the block event is written before
\* the FutileWakeup event.
traceGoParkBlockFirst(m, curg, p, traceEv, skip) ==
    IF Futile(traceEv)
    THEN traceEvent(traceEvent(m, curg, p, FALSE, traceEv % traceFutileWakeup, skip, <<>>),
                    curg, p, FALSE, traceEvFutileWakeup, -1, <<>>)
    ELSE traceEvent(m, curg, p, FALSE, traceEv, skip, <<>>)

\* traceGoPark: the goroutine curg, running on processor p, parks.
traceGoPark(m, curg, p, traceEv, skip) ==
    IF Futile(traceEv)
    THEN traceEvent(traceEvent(m, curg, p, FALSE, traceEvFutileWakeup, -1, <<>>),
                    curg, p, FALSE, traceEv % traceFutileWakeup, skip, <<>>)
    ELSE traceEvent(m, curg, p, FALSE, traceEv, skip, <<>>)

\* ------------------------------------------------------------- StartTrace

\* stopTheWorldGC, lock(&sched.sysmonlock), lock(&trace.bufLock).
StopWorldAndLock(m) ==
    [m EXCEPT !.sched = [sysmonlock |-> MainG, stw |-> TRUE], !.trace.bufLock = MainG]

\* unlock(&trace.bufLock), unlock(&sched.sysmonlock), startTheWorldGC.
UnlockAndStartWorld(m) ==
    [m EXCEPT !.sched = [sysmonlock |-> 0, stw |-> FALSE], !.trace.bufLock = 0]

\* gcMarkWorkerModeStrings, the labels StartTrace registers.
gcMarkWorkerModeStrings == << <<78>>, <<71>> >>

\* readgstatus(gp) = _Gwaiting: a goroutine parked in ReadTrace.
IsWaiting(g) == g \in DOMAIN reader /\ reader[g].pc = "parked"

\* readgstatus(gp) as StartTrace finds it with the world stopped.
readgstatus(gp) ==
    IF gp = DeadG THEN "_Gdead"
    ELSE IF gp = SyscallG THEN "_Gsyscall"
    ELSE IF IsWaiting(gp) THEN "_Gwaiting"
    ELSE IF gp = MainG THEN "_Grunning" ELSE "_Grunnable"

\* StartTrace: the stack id for the GoCreate events (kept in the local
\* variable stackID, here tmp[1]) and the new CPU-sample ring.
StartTraceInit(m) ==
    [m EXCEPT !.tmp = <<m.ret>>,
              !.trace.cpuLogRead = [isnil |-> FALSE, closed |-> FALSE, data |-> <<>>, overflow |-> 0],
              !.trace.cpuLogWrite = TRUE]

\* The GoCreate event of goroutine gp, whose start-PC stack id is in m.ret.
StartTraceCreate(m, p, gp) ==
    traceEvent(m, MainG, p, TRUE, traceEvGoCreate, -1, <<gp, m.ret, m.tmp[1]>>)

\* A faulty StartTraceAlive, for comparison: the status is not looked at.
StartTraceAliveAll(m, p, gp) ==
    IF Dead(m) THEN m
    ELSE StartTraceCreate(put([m EXCEPT !.g[gp] = [traceseq |-> 0, tracelastp |-> p]],
                              <<StartPC(gp)>>),
                          p, gp)

\* "if status != _Gdead": the sequence number and the last processor of gp
\* are reset, its start PC is interned and its GoCreate event written.
StartTraceAlive(m, p, gp) ==
    IF Dead(m) \/ readgstatus(gp) = "_Gdead" THEN m
    ELSE StartTraceCreate(put([m EXCEPT !.g[gp] = [traceseq |-> 0, tracelastp |-> p]],
                              <<StartPC(gp)>>),
                          p, gp)

\* The GoInSyscall event of goroutine gp, if it is in a system call.
StartTraceInSyscall(m, p, gp) ==
    IF Dead(m) \/ readgstatus(gp) # "_Gsyscall" THEN m
    ELSE traceEvent([m EXCEPT !.g[gp].traceseq = @ + 1], MainG, p, TRUE, traceEvGoInSyscall,
                    -1, <<gp>>)

\* The GoWaiting event of goroutine gp, if it is waiting.
StartTraceWaiting(m, p, gp) ==
    IF Dead(m) \/ readgstatus(gp) # "_Gwaiting" THEN m
    ELSE traceEvent([m EXCEPT !.g[gp].traceseq = @ + 1], MainG, p, TRUE, traceEvGoWaiting, -1,
                    <<gp>>)

RECURSIVE StartTraceSnapshot(_, _, _)
\* The forEachGRace loop of StartTrace over the goroutines gs.
StartTraceSnapshot(m, p, gs) ==
    IF Dead(m) \/ gs = <<>> THEN m
    ELSE StartTraceSnapshot(
             StartTraceInSyscall(
                 StartTraceWaiting(StartTraceAlive(m, p, Head(gs)), p, Head(gs)),
                 p, Head(gs)),
             p, Tail(gs))

\* traceProcStart, on the main thread (m.id 0).
traceProcStart(m, curg, p, startingtrace) ==
    traceEvent(m, curg, p, startingtrace, traceEvProcStart, -1, <<0>>)

\* A faulty StartTraceEnable, for comparison: footerWritten is not reset.
StartTraceEnableKeepFooter(m) ==
    IF Dead(m) THEN m
    ELSE [m EXCEPT !.trace.ticksStart = cputicks,
                   !.trace.timeStart = nanotime,
                   !.trace.headerWritten = FALSE,
                   !.trace.stringSeq = 0,
                   !.trace.strings = [isnil |-> FALSE, m |-> <<>>],
                   !.trace.enabled = TRUE]

\* StartTrace from trace.ticksStart = cputicks() to trace.enabled = true.
StartTraceEnable(m) ==
    IF Dead(m) THEN m
    ELSE [m EXCEPT !.trace.ticksStart = cputicks,
                   !.trace.timeStart = nanotime,
                   !.trace.headerWritten = FALSE,
                   !.trace.footerWritten = FALSE,
                   !.trace.stringSeq = 0,
                   !.trace.strings = [isnil |-> FALSE, m |-> <<>>],
                   !.trace.enabled = TRUE]

\* trace.markWorkerLabels[i] = the id traceString just returned.
StartTraceLabel(m, i) == IF Dead(m) THEN m ELSE [m EXCEPT !.trace.markWorkerLabels[i] = m.ret]

RECURSIVE StartTraceLabels(_, _, _)
\* The loop of StartTrace that registers the runtime goroutine labels.
StartTraceLabels(m, p, i) ==
    IF Dead(m) \/ i > Len(gcMarkWorkerModeStrings) THEN m
    ELSE StartTraceLabels(
             StartTraceLabel(traceString(m, MainG, <<"p", p>>, p, gcMarkWorkerModeStrings[i]), i),
             p, i + 1)

\* The return of StartTrace with error err (0 for nil).
StartTraceReturn(m, err) == IF Dead(m) THEN m ELSE [UnlockAndStartWorld(m) EXCEPT !.ret = err]

\* A faulty StartTraceBusy, for comparison: shutdown is not looked at.
StartTraceBusyEnabledOnly(m) == m.trace.enabled

\* The test "trace.enabled || trace.shutdown" of StartTrace.
StartTraceBusy(m) == m.trace.enabled \/ m.trace.shutdown

\* StartTrace with the world stopped and the locks held.
StartTraceLocked(m, p, gs) ==
    IF StartTraceBusy(m) THEN StartTraceReturn(m, 1)
    ELSE StartTraceReturn(
             StartTraceLabels(
                 StartTraceEnable(
                     traceGoStart(
                         traceProcStart(
                             StartTraceSnapshot(StartTraceInit(traceStackID(m, MainG)), p, gs),
                             MainG, p, TRUE),
                         MainG, p, TRUE)),
                 p, 1),
             0)

\* StartTrace, called by the main goroutine running on processor p, with the
\* goroutines gs alive. ret is the error: 0 for nil, 1 for "tracing is already
\* enabled".
StartTrace(m, p, gs) == StartTraceLocked(StopWorldAndLock(m), p, gs)

\* ------------------------------------------------------------- StopTrace

\* atomicstorep(&trace.cpuLogWrite, nil); trace.cpuLogRead.close()
StopTraceCloseLog(m) ==
    IF Dead(m) THEN m
    ELSE [m EXCEPT !.trace.cpuLogWrite = FALSE, !.trace.cpuLogRead.closed = TRUE]

RECURSIVE StopTraceProcs(_, _)
\* The loop of StopTrace over all allocated Ps, from p up.
StopTraceProcs(m, p) ==
    IF Dead(m) \/ p >= NumProcs THEN m
    ELSE IF m.tracebuf[p] # 0
    THEN StopTraceProcs([traceFullQueue(m, m.tracebuf[p]) EXCEPT !.tracebuf[p] = 0], p + 1)
    ELSE StopTraceProcs(m, p + 1)

\* StopTrace takes over trace.buf or trace.cpuLogBuf (the buffer at site).
StopTraceTake(m, site) ==
    IF Dead(m) \/ BufAt(m, site) = 0 THEN m
    ELSE IF m.bufs[BufAt(m, site)].pos # 0
    THEN SetBufAt(traceFullQueue(m, BufAt(m, site)), site, 0)
    ELSE SetBufAt(m, site, 0)

\* The clock loop of StopTrace: the value of cputicks() it ends with, having
\* waited for nanotime() to leave timeStart.
StopTraceClock(t) == IF nanotime = t.timeStart THEN cputicks + traceTickDiv ELSE cputicks

\* The clock loop of StopTrace: the value of nanotime() it ends with.
StopTraceTime(t) == IF nanotime = t.timeStart THEN nanotime + 1 ELSE nanotime

\* StopTrace from its clock loop to startTheWorldGC.
StopTraceDisable(m) ==
    IF Dead(m) THEN m
    ELSE [UnlockAndStartWorld(m) EXCEPT !.trace.ticksEnd = StopTraceClock(m.trace),
                                        !.trace.timeEnd = StopTraceTime(m.trace),
                                        !.trace.enabled = FALSE,
                                        !.trace.shutdown = TRUE,
                                        !.ret = 1]

\* StopTrace with the world stopped and the locks held.
StopTraceLocked(m, p) ==
    IF ~m.trace.enabled THEN [UnlockAndStartWorld(m) EXCEPT !.ret = 0]
    ELSE StopTraceDisable(
             StopTraceTake(
                 StopTraceTake(
                     StopTraceProcs(
                         traceReadCPU(StopTraceCloseLog(traceGoSched(m, MainG, p)), MainG),
                         0),
                     <<"buf">>),
                 <<"cpuLogBuf">>))

\* StopTrace, called by the main goroutine running on processor p, up to
\* semacquire(&trace.shutdownSema). ret is 1 when it goes on to wait for the
\* reader, 0 when it returns because tracing is not enabled.
StopTrace(m, p) == StopTraceLocked(StopWorldAndLock(m), p)

RECURSIVE StopTraceFree(_)
\* The loop of StopTrace that frees the buffers of trace.empty.
StopTraceFree(m) ==
    IF m.trace.empty = 0 THEN m
    ELSE StopTraceFree([m EXCEPT !.trace.empty = m.bufs[m.trace.empty].link,
                                 !.bufs[m.trace.empty] = ZeroBuf])

\* StopTrace after semacquire(&trace.shutdownSema): the checks, the release of
\* the buffers and the reset.
StopTraceFinish(m) ==
    IF \E p \in Procs : m.tracebuf[p] # 0
    THEN Throw(m, "trace: non-empty trace buffer in proc")
    ELSE IF m.trace.buf # 0 THEN Throw(m, "trace: non-empty global trace buffer")
    ELSE IF m.trace.fullHead # 0 \/ m.trace.fullTail # 0
    THEN Throw(m, "trace: non-empty full trace buffer")
    ELSE IF m.trace.reading # 0 \/ m.trace.reader # 0
    THEN Throw(m, "trace: reading after shutdown")
    ELSE [StopTraceFree(m) EXCEPT !.trace.strings = [isnil |-> TRUE, m |-> <<>>],
                                  !.trace.shutdown = FALSE,
                                  !.trace.cpuLogRead = [isnil |-> TRUE, closed |-> FALSE, data |-> <<>>, overflow |-> 0]]

\* ------------------------------------------------------------- ReadTrace

\* What ReadTrace is about to do when it releases trace.lock (in ret).
rtMultiple == "multiple readers"
rtHeader == "header"
rtPark == "park"
rtBuffer == "buffer"
rtFooter == "footer"
rtDone == "done"
rtSpurious == "spurious wakeup"

\* trace.lockOwner = nil; unlock(&trace.lock).
ReadTraceUnlock(m, what) ==
    IF Dead(m) THEN m ELSE [m EXCEPT !.trace.lockOwner = 0, !.trace.lock = 0, !.ret = what]

\* The frequency ReadTrace computes for the footer is <= 0.
freqInvalid(t) ==
    \/ t.ticksEnd - t.ticksStart = 0 /\ t.timeEnd - t.timeStart # 0
    \/ t.ticksEnd - t.ticksStart > 0 /\ t.timeEnd - t.timeStart < 0
    \/ t.ticksEnd - t.ticksStart < 0 /\ t.timeEnd - t.timeStart >= 0

\* "Write a buffer": the buffer traceFullDequeue returned (in m.ret) becomes
\* trace.reading and is returned.
ReadTraceBuffer(m) ==
    ReadTraceUnlock([m EXCEPT !.trace.reading = m.ret, !.local = m.ret], rtBuffer)

\* ReadTrace from "Write a buffer" on, with trace.lock held.
ReadTraceTail(m) ==
    IF Dead(m) THEN m
    ELSE IF m.trace.fullHead # 0 THEN ReadTraceBuffer(traceFullDequeue(m))
    ELSE IF ~m.trace.footerWritten
    THEN IF freqInvalid(m.trace)
         THEN Throw([m EXCEPT !.trace.footerWritten = TRUE],
                    "trace: ReadTrace got invalid frequency")
         ELSE ReadTraceUnlock([m EXCEPT !.trace.footerWritten = TRUE], rtFooter)
    ELSE IF m.trace.shutdown
    THEN [ReadTraceUnlock(m, rtDone) EXCEPT !.trace.shutdownSema = @ + 1]
    ELSE ReadTraceUnlock(m, rtSpurious)

\* goparkunlock(&trace.lock, ..., traceEvGoBlock, 2): the GoBlock event if
\* tracing is enabled, then the lock is released; lockOwner stays.
ReadTraceParked(m) == IF Dead(m) THEN m ELSE [m EXCEPT !.trace.lock = 0, !.ret = rtPark]

\* goparkunlock, the call: park_m emits the event before it releases the lock.
ReadTracePark(m, r, p) ==
    ReadTraceParked(IF m.trace.enabled THEN traceGoPark(m, r, p, traceEvGoBlock, 2) ELSE m)

\* ReadTrace from "Wait for new data" on.
ReadTraceWait(m, r, p) ==
    IF Dead(m) THEN m
    ELSE IF m.trace.fullHead = 0 /\ ~m.trace.shutdown
    THEN ReadTracePark([m EXCEPT !.trace.reader = r], r, p)
    ELSE ReadTraceTail(m)

\* "Recycle the old buffer." What was written to a buffer on the empty list is
\* never read again (traceFlush resets pos before it writes), so it is dropped.
ReadTraceRecycle(m) ==
    IF m.trace.reading = 0 THEN m
    ELSE [m EXCEPT !.bufs[m.trace.reading].link = m.trace.empty,
                   !.bufs[m.trace.reading].ev = <<>>,
                   !.trace.empty = m.trace.reading,
                   !.trace.reading = 0]

\* ReadTrace from "Write trace header" on.
ReadTraceHeader(m, r, p) ==
    IF ~m.trace.headerWritten
    THEN ReadTraceUnlock([m EXCEPT !.trace.headerWritten = TRUE], rtHeader)
    ELSE ReadTraceWait(IF ~m.trace.footerWritten /\ ~m.trace.shutdown
                       THEN traceReadCPU(m, r) ELSE m,
                       r, p)

\* A faulty ReadTraceLocked, for comparison: trace.reader is not looked at.
ReadTraceLockedNoCheck(m, r, p) == ReadTraceHeader(ReadTraceRecycle(m), r, p)

\* ReadTrace with trace.lock held and lockOwner set.
ReadTraceLocked(m, r, p) ==
    IF m.trace.reader # 0 THEN ReadTraceUnlock(m, rtMultiple)
    ELSE ReadTraceHeader(ReadTraceRecycle(m), r, p)

\* ReadTrace, called by goroutine r running on processor p, from
\* lock(&trace.lock) until it releases the lock: to return, to park or to dump
\* the stacks.
ReadTrace(m, r, p) == ReadTraceLocked([m EXCEPT !.trace.lock = r, !.trace.lockOwner = r], r, p)

\* traceReaderAvailable returns true if the trace reader is not currently
\* scheduled and should be.
traceReaderAvailable(t) == t.reader # 0 /\ (t.fullHead # 0 \/ t.shutdown)

\* A faulty traceReader, for comparison: trace.reader is not cleared.
traceReaderKeep(m) ==
    IF ~traceReaderAvailable(m.trace) THEN [m EXCEPT !.ret = 0]
    ELSE [m EXCEPT !.ret = m.trace.reader]

\* traceReader returns the trace reader that should be woken up, if any (in
\* ret, 0 for nil).
traceReader(m) ==
    IF ~traceReaderAvailable(m.trace) THEN [m EXCEPT !.ret = 0]
    ELSE [m EXCEPT !.trace.reader = 0, !.ret = m.trace.reader]

\* traceProcFree frees trace buffer associated with pp.
traceProcFree(m, pp) ==
    IF m.tracebuf[pp] = 0 THEN m
    ELSE traceFullQueue([m EXCEPT !.tracebuf[pp] = 0], m.tracebuf[pp])

\* ------------------------------------------------------------- initial state

\* The processor the main goroutine runs on, and the one the readers first
\* run on.
MainP == 0
ReaderP == NumProcs - 1

InitTrace ==
    [lock |-> 0, lockOwner |-> 0, enabled |-> FALSE, shutdown |-> FALSE,
     headerWritten |-> FALSE, footerWritten |-> FALSE, shutdownSema |-> 0,
     ticksStart |-> 0, ticksEnd |-> 0, timeStart |-> 0, timeEnd |-> 0,
     reading |-> 0, empty |-> 0, fullHead |-> 0, fullTail |-> 0, reader |-> 0,
     stackTab |-> [seq |-> 0, tab |-> <<>>],
     cpuLogRead |-> [isnil |-> TRUE, closed |-> FALSE, data |-> <<>>, overflow |-> 0],
     cpuLogBuf |-> 0, cpuLogWrite |-> FALSE,
     strings |-> [isnil |-> TRUE, m |-> <<>>], stringSeq |-> 0,
     markWorkerLabels |-> [i \in 1 .. Len(gcMarkWorkerModeStrings) |-> 0],
     bufLock |-> 0, buf |-> 0, signalLock |-> 0]

\* What is observed of a run: the number of sessions started and of events
\* emitted, and per session what ReadTrace returned first and how often it
\* returned the header, the footer and nil.
InitHist ==
    [session |-> 0, emits |-> 0, first |-> "", headers |-> 0, footers |-> 0, nils |-> 0,
     prev |-> 0,
     refs |-> {}, stacks |-> <<>>, srefs |-> {}, strs |-> <<>>,
     pre |-> {}, post |-> {}, headless |-> FALSE,
     sweepEv |-> [p \in Procs |-> <<>>]]

\* No user annotation is being emitted on a processor. Otherwise: the name to
\* intern, the id traceString gave it, and whether its String event is still
\* to be written.
IdleEmitter == [pc |-> "idle", name |-> <<>>, id |-> 0, new |-> FALSE]

\* A reader that is not inside ReadTrace, last run on processor p.
\* The threads that are in system calls: they have no P and are not stopped
\* with the world, so their signal handlers run at any time.
SysThreads == {1, 2}

\* A thread that is not in its profiling signal handler. In the handler, now
\* is its reading of cputicks() and log what it loaded from trace.cpuLogWrite:
\* "nil", or the ring, which is "open", "closed" (StopTrace closed it) or
\* "dropped" (StopTrace set trace.cpuLogRead = nil).
IdleSampler == [pc |-> "idle", now |-> 0, log |-> "nil"]

IdleReader(p) == [pc |-> "idle", p |-> p, bufp |-> 0, e |-> 0, ev |-> 0]

Init ==
    /\ trace = InitTrace
    /\ bufs = [b \in BufIds |-> ZeroBuf]
    /\ tracebuf = [p \in Procs |-> 0]
    /\ cputicks = traceTickDiv
    /\ nanotime = 1
    /\ fatal = ""
    /\ sched = [sysmonlock |-> 0, stw |-> FALSE]
    /\ gstate = [g \in {MainG, Reader1, Reader2, DeadG, SyscallG} |->
                     [traceseq |-> 0, tracelastp |-> -1]]
    /\ reader = [g \in {Reader1, Reader2} |-> IdleReader(ReaderP)]
    /\ stopper = "idle"
    /\ sysexit = FALSE
    /\ emitter = [p \in Procs |-> IdleEmitter]
    /\ sweep = [p \in Procs |-> [traceSweep |-> FALSE, traceSwept |-> 0, traceReclaimed |-> 0]]
    /\ sampler = [t \in SysThreads |-> IdleSampler]
    /\ out = [op |-> "", g |-> 0, val |-> ""]
    /\ hist = InitHist

\* The memory after a function ran: the function did not block and the
\* variables take the values it left.
Commit(m) ==
    /\ ~m.blocked
    /\ trace' = m.trace
    /\ bufs' = m.bufs
    /\ tracebuf' = m.tracebuf
    /\ fatal' = m.fatal
    /\ sched' = m.sched
    /\ gstate' = m.g
    /\ sweep' = m.sweep

\* The goroutine on processor p is inside trace_userRegion, past
\* traceAcquireBuffer (acquirem: it keeps the processor until it is done).
InEmit(p) == emitter[p].pc \in {"string", "put"}

\* A reader is in the middle of a traceFlush that did not take trace.lock,
\* on processor p, or the processor is kept by an emit.
InFlush(p) ==
    \/ \E r \in DOMAIN reader : reader[r].pc = "flush" /\ reader[r].p = p
    \/ InEmit(p)

\* The process runs: no throw has aborted it.
Running == fatal = ""

\* The world can be stopped: no processor is inside the tracer or between
\* traceGCSweepStart and traceGCSweepDone (no preemption point there).
CanStop == \A p \in Procs : ~InFlush(p) /\ ~sweep[p].traceSweep

\* The events from index n + 1 on.
Suffix(evs, n) == SubSeq(evs, n + 1, Len(evs))

\* The events written for processor p in this step, in the order written: to
\* the buffer it held, then to the buffer it holds now if that is another one.
Written(p) ==
    IF tracebuf'[p] = 0 THEN <<>>
    ELSE IF tracebuf'[p] = tracebuf[p]
    THEN Suffix(bufs'[tracebuf[p]].ev, Len(bufs[tracebuf[p]].ev))
    ELSE (IF tracebuf[p] = 0 THEN <<>>
          ELSE Suffix(bufs'[tracebuf[p]].ev, Len(bufs[tracebuf[p]].ev)))
         \o bufs'[tracebuf'[p]].ev

\* The types of the events evs.
Types(evs) == [i \in 1 .. Len(evs) |-> evs[i].ev]

\* The types of the events written for processor p in this step, the Batch
\* events of new buffers left out.
Emitted(p) == Types(SelectSeq(Written(p), LAMBDA e : e.ev # traceEvBatch))

\* ------------------------------------------------------------- actions

\* cputicks() and nanotime() advance while a session runs (counted with the
\* events, of which there are at most ne).
Tick(ne) ==
    /\ Running
    /\ trace.enabled
    /\ nanotime - trace.timeStart < MaxTicks
    /\ hist.emits < ne
    /\ cputicks' = cputicks + traceTickDiv
    /\ nanotime' = nanotime + 1
    /\ hist' = [hist EXCEPT !.emits = @ + 1]
    /\ UNCHANGED <<sampler, emitter, trace, bufs, tracebuf, sweep, fatal, sched, gstate, reader, stopper,
                   sysexit, out>>

\* nanotime() advances while cputicks() returns the value it returned before.
\* Taken before StopTrace it is an iteration of its clock loop in which only
\* nanotime() moved: the world is stopped there and nothing else reads the
\* clocks.
TickTime(ne) ==
    /\ Running
    /\ trace.enabled
    /\ nanotime - trace.timeStart < MaxTicks
    /\ hist.emits < ne
    /\ nanotime' = nanotime + 1
    /\ hist' = [hist EXCEPT !.emits = @ + 1]
    /\ UNCHANGED <<sampler, emitter, cputicks, trace, bufs, tracebuf, sweep, fatal, sched, gstate, reader, stopper,
                   sysexit, out>>

\* The goroutines alive when the readers are rs, in the order of allgs.
AllGs(rs) == <<MainG>> \o (IF Reader1 \in rs THEN <<Reader1>> ELSE <<>>)
                       \o (IF Reader2 \in rs THEN <<Reader2>> ELSE <<>>)

\* The observations at the start of a session.
NewSession == [InitHist EXCEPT !.session = hist.session + 1, !.emits = hist.emits,
                               !.prev = hist.nils]

\* A call of StartTrace, with the readers rs alive; at most ns calls succeed.
DoStartTrace(rs, ns) ==
    /\ Running /\ CanStop
    /\ (trace.enabled \/ trace.shutdown) \/ hist.session < ns
    /\ Commit(StartTrace(Mem, MainP, AllGs(rs)))
    /\ out' = IF trace.enabled \/ trace.shutdown THEN out
              ELSE [op |-> "StartTrace", g |-> MainG, val |-> "nil"]
    /\ hist' = IF trace.enabled \/ trace.shutdown THEN hist ELSE NewSession
    /\ UNCHANGED <<sampler, emitter, cputicks, nanotime, reader, stopper, sysexit>>

\* A call of StartTrace that finds, besides the main goroutine and the reader,
\* the goroutines more.
DoStartTraceAll(more, ns) ==
    /\ Running /\ CanStop
    /\ (trace.enabled \/ trace.shutdown) \/ hist.session < ns
    /\ Commit(StartTrace(Mem, MainP, AllGs({Reader1}) \o more))
    /\ out' = IF trace.enabled \/ trace.shutdown THEN out
              ELSE [op |-> "StartTrace", g |-> MainG, val |-> "nil"]
    /\ hist' = IF trace.enabled \/ trace.shutdown THEN hist ELSE NewSession
    /\ UNCHANGED <<sampler, emitter, cputicks, nanotime, reader, stopper, sysexit>>

\* A call of StopTrace, up to its wait for the reader. Its clock loop has the
\* clock tick if it did not since StartTrace.
DoStopTrace ==
    /\ Running /\ CanStop
    /\ stopper = "idle"
    /\ Commit(StopTrace(Mem, MainP))
    /\ cputicks' = IF trace.enabled THEN StopTraceClock(trace) ELSE cputicks
    /\ nanotime' = IF trace.enabled THEN StopTraceTime(trace) ELSE nanotime
    /\ stopper' = IF trace.enabled THEN "wait" ELSE "idle"
    /\ sampler' = Aliased(sampler, trace'.cpuLogRead)
    /\ UNCHANGED <<emitter, reader, sysexit, out, hist>>

\* StopTrace passes semacquire(&trace.shutdownSema) and finishes.
StopTraceWake ==
    /\ Running
    /\ stopper = "wait"
    /\ trace.shutdownSema > 0
    /\ Commit(StopTraceFinish([Mem EXCEPT !.trace.shutdownSema = @ - 1]))
    /\ stopper' = "idle"
    /\ out' = IF fatal' = "" THEN [op |-> "StopTrace", g |-> MainG, val |-> "stopped"] ELSE out
    /\ sampler' = Aliased(sampler, trace'.cpuLogRead)
    /\ UNCHANGED <<emitter, cputicks, nanotime, reader, sysexit, hist>>

\* A runtime hook on processor p emits an event (traceHeapAlloc here), having
\* seen trace.enabled; at most ne events are emitted.
Emit(p, ne) ==
    /\ Running /\ ~InFlush(p)
    /\ trace.enabled
    /\ hist.emits < ne
    /\ Commit(traceEvent(Mem, MainG, p, FALSE, traceEvHeapAlloc, -1, <<1>>))
    /\ hist' = [hist EXCEPT !.emits = @ + 1]
    /\ UNCHANGED <<sampler, emitter, cputicks, nanotime, reader, stopper, sysexit, out>>

\* A thread without a P sees trace.enabled and decides to emit an event.
SeeEnabled(ne) ==
    /\ Running
    /\ trace.enabled
    /\ hist.emits < ne
    /\ ~sysexit
    /\ sysexit' = TRUE
    /\ hist' = [hist EXCEPT !.emits = @ + 1]
    /\ UNCHANGED <<sampler, emitter, trace, bufs, tracebuf, sweep, cputicks, nanotime, fatal, sched, gstate, reader,
                   stopper, out>>

\* The thread without a P emits its event into the global buffer, under
\* trace.bufLock.
EmitGlobal ==
    /\ Running
    /\ sysexit
    /\ Commit(traceEvent(Mem, 0, traceGlobProc, FALSE, traceEvHeapAlloc, -1, <<1>>))
    /\ sysexit' = FALSE
    /\ UNCHANGED <<sampler, emitter, cputicks, nanotime, reader, stopper, out, hist>>

\* Processor p is destroyed (the world is stopped for it).
DoProcFree(p, ne) ==
    /\ Running /\ CanStop
    /\ tracebuf[p] # 0
    /\ hist.emits < ne
    /\ Commit(traceProcFree(Mem, p))
    /\ hist' = [hist EXCEPT !.emits = @ + 1]
    /\ UNCHANGED <<sampler, emitter, cputicks, nanotime, reader, stopper, sysexit, out>>

\* A profiling signal arrives on a thread running on processor p.
DoCPUSample(p, ne) ==
    /\ Running
    /\ trace.enabled
    /\ Len(trace.cpuLogRead.data) < MaxSamples
    /\ hist.emits < ne
    /\ Commit(traceCPUSample(Mem, MainG, p, <<150>>))
    /\ hist' = [hist EXCEPT !.emits = @ + 1]
    /\ UNCHANGED <<sampler, emitter, cputicks, nanotime, reader, stopper, sysexit, out>>

\* A profiling signal arrives on a thread running goroutine gp (0 for g0 or
\* none) on processor pp (traceGlobProc for none), whatever room the ring has.
DoCPUSampleOn(pp, gp, ne) ==
    /\ Running
    /\ trace.enabled
    /\ hist.emits < ne
    /\ Commit(traceCPUSample(Mem, gp, pp, <<150>>))
    /\ hist' = [hist EXCEPT !.emits = @ + 1]
    /\ UNCHANGED <<sampler, emitter, cputicks, nanotime, reader, stopper, sysexit, out>>

\* A profiling signal arrives on thread t: traceCPUSample
\* tests trace.enabled and reads the clock.
SampleSee(t, ne) ==
    /\ Running
    /\ sampler[t].pc = "idle"
    /\ hist.emits < ne
    /\ sampler' = [sampler EXCEPT ![t] = IF trace.enabled
                                         THEN [pc |-> "seen", now |-> cputicks, log |-> "nil"]
                                         ELSE IdleSampler]
    /\ out' = IF trace.enabled THEN out
              ELSE [op |-> "traceCPUSample", g |-> t, val |-> "disabled"]
    /\ hist' = [hist EXCEPT !.emits = @ + 1]
    /\ UNCHANGED <<emitter, trace, bufs, tracebuf, sweep, cputicks, nanotime, fatal, sched, gstate, reader,
                   stopper, sysexit>>

\* The handler on thread t takes trace.signalLock (it spins
\* while another handler has it) and loads trace.cpuLogWrite.
SampleLock(t) ==
    /\ Running
    /\ sampler[t].pc = "seen"
    /\ trace.signalLock = 0
    /\ Commit(traceCPUSampleAcquire(Mem))
    /\ sampler' = [sampler EXCEPT ![t].pc = "loaded", ![t].log = traceCPUSampleLog(trace)]
    /\ UNCHANGED <<emitter, cputicks, nanotime, reader, stopper, sysexit, out, hist>>

\* The handler on thread t writes its record to the ring it
\* loaded, if any, and releases trace.signalLock.
SampleWrite(t) ==
    /\ Running
    /\ sampler[t].pc = "loaded"
    /\ Commit(traceCPUSampleWrite(Mem, sampler[t].log,
                                  Sample(sampler[t].now, traceGlobProc, 0, <<150>>)))
    /\ sampler' = [sampler EXCEPT ![t] = IdleSampler]
    /\ out' = [op |-> "traceCPUSample", g |-> t,
               val |-> CASE sampler[t].log = "nil" -> "discarded"
                         [] sampler[t].log = "open" -> "written"
                         [] OTHER -> "written after close"]
    /\ UNCHANGED <<emitter, cputicks, nanotime, reader, stopper, sysexit, hist>>

\* The sweeper on processor p calls traceGCSweepStart (its callers test
\* trace.enabled first).
DoSweepStart(p, ne) ==
    /\ Running /\ ~InFlush(p)
    /\ trace.enabled
    /\ hist.emits < ne
    /\ Commit(traceGCSweepStart(Mem, p))
    /\ out' = [op |-> "traceGCSweepStart", g |-> Worker(p),
               val |-> IF sweep[p].traceSweep THEN "double" ELSE "started"]
    /\ hist' = [hist EXCEPT !.emits = @ + 1, !.sweepEv[p] = <<>>]
    /\ UNCHANGED <<emitter, sampler, cputicks, nanotime, reader, stopper, sysexit>>

\* The sweeper on processor p calls traceGCSweepSpan for a span of bytesSwept
\* bytes.
DoSweepSpan(p, bytesSwept, ne) ==
    /\ Running /\ ~InFlush(p)
    /\ trace.enabled
    /\ hist.emits < ne
    /\ Commit(traceGCSweepSpan(Mem, Worker(p), p, bytesSwept))
    /\ out' = [op |-> "traceGCSweepSpan", g |-> Worker(p),
               val |-> IF sweep[p].traceSweep THEN "inside" ELSE "outside"]
    /\ hist' = [hist EXCEPT !.emits = @ + 1, !.sweepEv[p] = @ \o Emitted(p)]
    /\ UNCHANGED <<emitter, sampler, cputicks, nanotime, reader, stopper, sysexit>>

\* The sweeper on processor p calls traceGCSweepDone.
DoSweepDone(p, ne) ==
    /\ Running /\ ~InFlush(p)
    /\ trace.enabled
    /\ sweep[p].traceSweep \/ hist.emits < ne
    /\ Commit(traceGCSweepDone(Mem, Worker(p), p))
    /\ out' = [op |-> "traceGCSweepDone", g |-> Worker(p),
               val |-> IF sweep[p].traceSweep THEN "done" ELSE "missing"]
    /\ hist' = [hist EXCEPT !.emits = IF sweep[p].traceSweep THEN @ ELSE @ + 1,
                            !.sweepEv[p] = @ \o Emitted(p)]
    /\ UNCHANGED <<emitter, sampler, cputicks, nanotime, reader, stopper, sysexit>>

\* The goroutine running on processor p parks on a mutex (park_m saw
\* trace.enabled), after a futile wakeup if traceEv has the bit for it.
DoGoPark(p, traceEv, ne) ==
    /\ Running /\ ~InFlush(p)
    /\ trace.enabled
    /\ hist.emits < ne
    /\ Commit(traceGoPark(Mem, Worker(p), p, traceEv, 1))
    /\ out' = [op |-> "traceGoPark", g |-> Worker(p),
               val |-> IF Futile(traceEv) THEN "futile" ELSE "block"]
    /\ hist' = [hist EXCEPT !.emits = @ + 1]
    /\ UNCHANGED <<sampler, emitter, cputicks, nanotime, reader, stopper, sysexit>>

\* The main goroutine is started on processor p after a system call (execute
\* saw trace.enabled); ts is gp.sysexitticks.
DoGoSysExit(p, ts, ne) ==
    /\ Running /\ ~InFlush(p)
    /\ trace.enabled
    /\ hist.emits < ne
    /\ gstate[MainG].traceseq < MaxSeq
    /\ Commit(traceGoSysExit(Mem, MainG, p, ts))
    /\ out' = [op |-> "traceGoSysExit", g |-> MainG,
               val |-> IF ts = 0 THEN "none"
                       ELSE IF ts < trace.ticksStart THEN "before" ELSE "after"]
    /\ hist' = [hist EXCEPT !.emits = @ + 1]
    /\ UNCHANGED <<sampler, emitter, cputicks, nanotime, reader, stopper, sysexit>>

\* The names of the regions user code annotates.
UserNames == {<<>>, <<82>>}

\* User code on processor p calls trace_userRegion and passes its first test
\* of trace.enabled; it can still be preempted.
UserSee(p, ne) ==
    /\ Running
    /\ trace.enabled
    /\ hist.emits < ne
    /\ emitter[p].pc = "idle"
    /\ \E name \in UserNames :
           emitter' = [emitter EXCEPT ![p] = [IdleEmitter EXCEPT !.pc = "seen", !.name = name]]
    /\ hist' = [hist EXCEPT !.emits = @ + 1]
    /\ UNCHANGED <<sampler, trace, bufs, tracebuf, sweep, cputicks, nanotime, fatal, sched, gstate, reader, stopper,
                   sysexit, out>>

\* trace_userRegion on processor p: traceAcquireBuffer, the second test of
\* trace.enabled, and traceString up to unlock(&trace.stringsLock).
UserAcquire(p) ==
    /\ Running /\ ~InFlush(p)
    /\ emitter[p].pc = "seen"
    /\ IF ~trace.enabled
       THEN /\ emitter' = [emitter EXCEPT ![p] = IdleEmitter]
            /\ out' = [op |-> "trace_userRegion", g |-> Worker(p), val |-> "disabled"]
            /\ UNCHANGED <<trace, bufs, tracebuf, sweep, fatal, sched, gstate>>
       ELSE /\ Commit(traceStringLocked(Mem, emitter[p].name))
            /\ out' = out
            /\ emitter' = [emitter EXCEPT
                   ![p].pc = "string",
                   ![p].id = traceStringLocked(Mem, emitter[p].name).ret,
                   ![p].new = traceStringLocked(Mem, emitter[p].name).trace.stringSeq
                                  # trace.stringSeq]
    /\ UNCHANGED <<sampler, cputicks, nanotime, reader, stopper, sysexit, hist>>

\* trace_userRegion on processor p: the String event and the UserRegion event,
\* up to the lock-free lookup of traceStackTable.put if that misses.
UserString(p) ==
    /\ Running
    /\ emitter[p].pc = "string"
    /\ IF find(trace.stackTab, traceStackFrames(Worker(p))) # 0
       THEN /\ Commit(trace_userRegion(Mem, p, emitter[p], 3))
            /\ emitter' = [emitter EXCEPT ![p] = IdleEmitter]
       ELSE /\ Commit(trace_userRegion(Mem, p, emitter[p], -1))
            /\ emitter' = [emitter EXCEPT ![p].pc = "put"]
    /\ UNCHANGED <<sampler, cputicks, nanotime, reader, stopper, sysexit, out, hist>>

\* trace_userRegion on processor p: the rest of traceStackTable.put, under
\* tab.lock, the stack id of the event, and traceReleaseBuffer.
UserPut(p) ==
    /\ Running
    /\ emitter[p].pc = "put"
    /\ Commit(AppendStack(putLocked(Mem, traceStackFrames(Worker(p))), SiteOf(p)))
    /\ emitter' = [emitter EXCEPT ![p] = IdleEmitter]
    /\ out' = [op |-> "put", g |-> Worker(p),
               val |-> IF find(trace.stackTab, traceStackFrames(Worker(p))) # 0
                       THEN "found under the lock" ELSE "new record"]
    /\ UNCHANGED <<sampler, cputicks, nanotime, reader, stopper, sysexit, hist>>

\* A string of n bytes.
Str(n) == [i \in 1 .. n |-> 76]

\* User code on processor p calls trace_userLog(1, category, message).
DoUserLog(p, category, message, ne) ==
    /\ Running /\ ~InFlush(p)
    /\ trace.enabled
    /\ hist.emits < ne
    /\ Commit(trace_userLog(Mem, p, 1, category, message))
    /\ out' = [op |-> "trace_userLog", g |-> Worker(p), val |-> "done"]
    /\ hist' = [hist EXCEPT !.emits = @ + 1]
    /\ UNCHANGED <<sampler, emitter, cputicks, nanotime, reader, stopper, sysexit>>

\* Counting up to 2.
Upto2(n) == IF n < 2 THEN n + 1 ELSE n

\* What a return of ReadTrace adds to the observations h.
Returned(h, kind) ==
    [h EXCEPT !.first = IF @ = "" THEN kind ELSE @,
              !.headers = IF kind = rtHeader THEN Upto2(@) ELSE @,
              !.footers = IF kind = rtFooter THEN Upto2(@) ELSE @,
              !.nils = IF kind = rtDone THEN Upto2(@) ELSE @]

\* The stack ids the event e carries, by its type: GoCreate has the new
\* goroutine's stack and the creator's, the others the stack id written last.
StackRefs(e) ==
    CASE e.ev = traceEvGoCreate -> {e.vals[3], e.vals[4]}
      [] e.ev \in {traceEvGoSched, traceEvGoBlock, traceEvGoUnblock, traceEvGoUnblockLocal,
                   traceEvCPUSample, traceEvUserRegion} -> {e.vals[Len(e.vals)]}
      [] OTHER -> {}

\* The string ids the event e refers to: the funcID and fileID of every frame
\* of a Stack record, the name of a UserRegion event.
StringRefs(e) ==
    CASE e.ev = traceEvStack ->
             {e.vals[j] : j \in {i \in 5 .. Len(e.vals) : i % 4 \in {1, 2}}}
      [] e.ev = traceEvUserRegion -> {e.vals[4]}
      [] OTHER -> {}

\* What the events evs of a buffer ReadTrace returned add to the observations
\* h of the stream: the stack and string ids referred to, the ids of the Stack
\* and String records, the kinds of records seen before and after the footer
\* was returned, and whether a buffer did not start with a Batch event.
Observed(h, evs) ==
    LET IsStack(e) == e.ev = traceEvStack
        IsString(e) == e.ev = traceEvString
        stk == SelectSeq(evs, IsStack)
        str == SelectSeq(evs, IsString)
        kinds == {evs[i].ev : i \in 1 .. Len(evs)}
    IN [h EXCEPT !.refs = @ \cup (UNION {StackRefs(evs[i]) : i \in 1 .. Len(evs)} \ {0}),
                 !.stacks = @ \o [i \in 1 .. Len(stk) |-> stk[i].vals[2]],
                 !.srefs = @ \cup (UNION {StringRefs(evs[i]) : i \in 1 .. Len(evs)} \ {0}),
                 !.strs = @ \o [i \in 1 .. Len(str) |-> str[i].vals[1]],
                 !.pre = IF h.footers = 0 THEN @ \cup kinds ELSE @,
                 !.post = IF h.footers > 0 THEN @ \cup kinds ELSE @,
                 !.headless = @ \/ evs = <<>> \/ evs[1].ev # traceEvBatch]

\* What ReadTrace does after releasing the lock with m.ret: it returns, parks
\* or goes on to dump the stacks.
AfterUnlock(m, r, p, h) ==
    /\ reader' = [reader EXCEPT ![r] =
                    [IdleReader(p) EXCEPT !.pc = CASE m.fatal # "" -> "idle"
                                                   [] m.ret = rtPark -> "parked"
                                                   [] m.ret = rtFooter -> "dump"
                                                   [] OTHER -> "idle"]]
    /\ IF m.fatal # "" \/ m.ret \in {rtPark, rtFooter}
       THEN out' = out /\ hist' = h
       ELSE /\ out' = [op |-> "ReadTrace", g |-> r, val |-> m.ret]
            /\ hist' = IF m.ret = rtBuffer
                       THEN Observed(Returned(h, m.ret), m.bufs[m.trace.reading].ev)
                       ELSE Returned(h, m.ret)

\* A call of ReadTrace by goroutine r, running on the processor it last ran
\* on. The calls of a second reader are counted with the events.
DoReadTrace(r, ne) ==
    /\ Running /\ ~InFlush(reader[r].p)
    /\ reader[r].pc = "idle"
    /\ r = Reader1 \/ hist.emits < ne
    /\ ReadTrace(Mem, r, reader[r].p).trace.shutdownSema <= MaxSema
    /\ Commit(ReadTrace(Mem, r, reader[r].p))
    /\ AfterUnlock(ReadTrace(Mem, r, reader[r].p), r, reader[r].p,
                   IF r = Reader1 THEN hist ELSE [hist EXCEPT !.emits = @ + 1])
    /\ UNCHANGED <<sampler, emitter, cputicks, nanotime, stopper, sysexit>>

\* The scheduler on processor p finds the parked reader with traceReader and
\* makes it runnable (traceGoUnpark, called on g0, if tracing is enabled).
WakeReader(p) ==
    /\ Running /\ ~InFlush(p)
    /\ trace.enabled \/ trace.shutdown
    /\ traceReaderAvailable(trace)
    /\ trace.enabled => gstate[trace.reader].traceseq < MaxSeq
    /\ Commit(IF trace.enabled THEN traceGoUnpark(traceReader(Mem), 0, p, trace.reader, 0)
              ELSE traceReader(Mem))
    /\ reader' = [reader EXCEPT ![trace.reader].pc = "runnable", ![trace.reader].p = p]
    /\ UNCHANGED <<sampler, emitter, cputicks, nanotime, stopper, sysexit, out, hist>>

\* traceGoStart of goroutine r has to flush and its traceFlush does not take
\* trace.lock: trace.lockOwner is still r, which parked inside ReadTrace.
FlushUnlocked(r) ==
    /\ trace.enabled
    /\ NeedFlush(Mem, SiteOf(reader[r].p), 2 + 5 * traceBytesPerNumber)
    /\ ~traceFlushDolock(Mem, r)

\* The scheduler runs the woken reader r on the processor that woke it
\* (traceGoStart, if tracing is enabled). A traceFlush without trace.lock is
\* followed up to its read of trace.empty.
StartReader(r) ==
    /\ Running /\ ~InEmit(reader[r].p)
    /\ reader[r].pc = "runnable"
    /\ IF FlushUnlocked(r)
       THEN /\ Commit(traceFlushQueue(traceSeq(Mem, r, reader[r].p), tracebuf[reader[r].p]))
            /\ reader' = [reader EXCEPT ![r].pc = "flush", ![r].e = trace.empty,
                                        ![r].ev = IF gstate[r].tracelastp = reader[r].p
                                                  THEN traceEvGoStartLocal ELSE traceEvGoStart]
       ELSE /\ Commit(IF trace.enabled THEN traceGoStart(Mem, r, reader[r].p, FALSE) ELSE Mem)
            /\ reader' = [reader EXCEPT ![r].pc = "running"]
    /\ UNCHANGED <<sampler, emitter, cputicks, nanotime, stopper, sysexit, out, hist>>

\* The rest of the traceFlush without trace.lock and of traceGoStart: the
\* buffer read from trace.empty (or a new one) becomes p.tracebuf and takes
\* the event.
FinishFlush(r) ==
    /\ Running
    /\ reader[r].pc = "flush"
    /\ Commit(traceEventWrite(
                SetFlushed(traceFlushTake(Mem, reader[r].e, reader[r].p), SiteOf(reader[r].p)),
                2 + 5 * traceBytesPerNumber, SiteOf(reader[r].p), reader[r].ev, 0, -1,
                IF reader[r].ev = traceEvGoStartLocal THEN <<r>> ELSE <<r, gstate[r].traceseq>>))
    /\ reader' = [reader EXCEPT ![r].pc = "running", ![r].e = 0, ![r].ev = 0]
    /\ UNCHANGED <<sampler, emitter, cputicks, nanotime, stopper, sysexit, out, hist>>

\* The woken reader r takes trace.lock again and goes on in ReadTrace.
ResumeReadTrace(r) ==
    /\ Running /\ ~InEmit(reader[r].p)
    /\ reader[r].pc = "running"
    /\ ReadTraceTail([Mem EXCEPT !.trace.lock = r]).trace.shutdownSema <= MaxSema
    /\ Commit(ReadTraceTail([Mem EXCEPT !.trace.lock = r]))
    /\ AfterUnlock(ReadTraceTail([Mem EXCEPT !.trace.lock = r]), r, reader[r].p, hist)
    /\ UNCHANGED <<sampler, emitter, cputicks, nanotime, stopper, sysexit>>

\* The reader r, having written the footer, dumps the stacks into buffers.
DumpWrite(r) ==
    /\ Running /\ ~InEmit(reader[r].p)
    /\ reader[r].pc = "dump"
    /\ Commit(dumpWrite(Mem, r))
    /\ reader' = [reader EXCEPT ![r].pc = "dumped", ![r].bufp = dumpWrite(Mem, r).local]
    /\ UNCHANGED <<sampler, emitter, cputicks, nanotime, stopper, sysexit, out, hist>>

\* The reader r queues the last buffer of the dump, resets the stack table and
\* returns the footer from ReadTrace.
DumpFinish(r) ==
    /\ Running /\ ~InEmit(reader[r].p)
    /\ reader[r].pc = "dumped"
    /\ Commit(dumpFinish(Mem, reader[r].bufp))
    /\ reader' = [reader EXCEPT ![r].pc = "idle", ![r].bufp = 0]
    /\ out' = [op |-> "ReadTrace", g |-> r, val |-> rtFooter]
    /\ hist' = Returned(hist, rtFooter)
    /\ UNCHANGED <<sampler, emitter, cputicks, nanotime, stopper, sysexit>>

\* ------------------------------------------------------------- specification

\* The steps of the program with the readers rs, at most ns sessions and at
\* most ne events emitted by hooks.
NextOf(rs, ns, ne) ==
    \/ Tick(ne)
    \/ DoStartTrace(rs, ns)
    \/ DoStopTrace
    \/ StopTraceWake
    \/ (\E p \in Procs : Emit(p, ne))
    \/ SeeEnabled(ne)
    \/ EmitGlobal
    \/ (\E p \in Procs \ {MainP} : DoProcFree(p, ne))
    \/ (\E p \in Procs : DoCPUSample(p, ne))
    \/ (\E r \in rs : DoReadTrace(r, ne))
    \/ (\E p \in Procs : WakeReader(p))
    \/ (\E r \in rs : StartReader(r))
    \/ (\E r \in rs : FinishFlush(r))
    \/ (\E r \in rs : ResumeReadTrace(r))
    \/ (\E r \in rs : DumpWrite(r))
    \/ (\E r \in rs : DumpFinish(r))

\* ReadTrace is called from one goroutine at a time (its documented use).
Next == NextOf({Reader1}, MaxSessions, MaxEmits)

Spec == Init /\ [][Next]_vars

\* One session with more events: enough for a reader to be started on a
\* processor whose buffer is full while the empty list holds a buffer.
RaceSessions == 1
RaceEmits == 3
NextRace == NextOf({Reader1}, RaceSessions, RaceEmits)

SpecRace == Init /\ [][NextRace]_vars

\* More sessions with fewer events: enough for what one session leaves behind
\* to show in the sessions after it.
CycleSessions == 3
CycleEmits == 1
NextCycles == NextOf({Reader1}, CycleSessions, CycleEmits)

SpecCycles == Init /\ [][NextCycles]_vars

\* ReadTrace called from two goroutines.
ReadersSessions == 1
ReadersEmits == 2
NextReaders == NextOf({Reader1, Reader2}, ReadersSessions, ReadersEmits)

SpecReaders == Init /\ [][NextReaders]_vars

\* One session with user annotations on every processor.
UserSessions == 1
UserEmits == 2
NextUser ==
    \/ NextOf({Reader1}, UserSessions, UserEmits)
    \/ (\E p \in Procs : UserSee(p, UserEmits))
    \/ (\E p \in Procs : UserAcquire(p))
    \/ (\E p \in Procs : UserString(p))
    \/ (\E p \in Procs : UserPut(p))

SpecUser == Init /\ [][NextUser]_vars

\* One session in which the two clocks advance independently of each other.
ClockSessions == 1
ClockEmits == 2
NextClocks ==
    \/ NextOf({Reader1}, ClockSessions, ClockEmits)
    \/ TickTime(ClockEmits)

SpecClocks == Init /\ [][NextClocks]_vars

\* One session in which goroutines park, with and without a futile wakeup.
ParkSessions == 1
ParkEmits == 2
ParkEvs == {traceEvGoBlockSync, traceEvGoBlockSync + traceFutileWakeup}
NextPark ==
    \/ NextOf({Reader1}, ParkSessions, ParkEmits)
    \/ (\E p \in Procs : \E traceEv \in ParkEvs : DoGoPark(p, traceEv, ParkEmits))

SpecPark == Init /\ [][NextPark]_vars

\* One session with sweep loops on every processor, of spans of one page or
\* two.
SweepSessions == 1
SweepEmits == 3
SweepBytes == {1, 2}
NextSweep ==
    \/ NextOf({Reader1}, SweepSessions, SweepEmits)
    \/ (\E p \in Procs : DoSweepStart(p, SweepEmits))
    \/ (\E p \in Procs : \E n \in SweepBytes : DoSweepSpan(p, n, SweepEmits))
    \/ (\E p \in Procs : DoSweepDone(p, SweepEmits))

SpecSweep == Init /\ [][NextSweep]_vars

\* One session with profiling signals on threads in system calls, whose
\* handlers run step by step.
SignalSessions == 1
SignalEmits == 2
NextSignal ==
    \/ NextOf({Reader1}, SignalSessions, SignalEmits)
    \/ (\E t \in SysThreads : SampleSee(t, SignalEmits))
    \/ (\E t \in SysThreads : SampleLock(t))
    \/ (\E t \in SysThreads : SampleWrite(t))

SpecSignal == Init /\ [][NextSignal]_vars

\* Two sessions in which goroutines are started after system calls;
\* sysexitticks was not recorded (0) or is a reading of cputicks() one tick
\* ago or now.
SysSessions == 2
SysEmits == 1
NextSys ==
    \/ NextOf({Reader1}, SysSessions, SysEmits)
    \/ (\E p \in Procs : \E ts \in {0, cputicks - traceTickDiv, cputicks} :
            DoGoSysExit(p, ts, SysEmits))

SpecSys == Init /\ [][NextSys]_vars

\* One session in which user code logs categories and messages that are
\* empty, short, about as long as a trace buffer, and longer.
LogSessions == 1
LogEmits == 1
LogLens == {0, 1} \cup ((BufLen - 21) .. (BufLen - 4))
NextLog ==
    \/ NextOf({Reader1}, LogSessions, LogEmits)
    \/ (\E p \in Procs : \E c, n \in LogLens : DoUserLog(p, Str(c), Str(n), LogEmits))

SpecLog == Init /\ [][NextLog]_vars

\* Two sessions that StartTrace may begin with a dead goroutine and one in a
\* system call among the goroutines.
SnapSessions == 2
SnapEmits == 1
SnapMore == {<<DeadG>>, <<SyscallG>>, <<DeadG, SyscallG>>, <<SyscallG, DeadG>>}
NextSnap ==
    \/ NextOf({Reader1}, SnapSessions, SnapEmits)
    \/ (\E more \in SnapMore : DoStartTraceAll(more, SnapSessions))

SpecSnap == Init /\ [][NextSnap]_vars

\* traceEvent(ev, skip, args...) on processor p.
DoEvent(p, ev, skip, args, ne) ==
    /\ Running /\ ~InFlush(p)
    /\ trace.enabled
    /\ hist.emits < ne
    /\ Commit(traceEvent(Mem, MainG, p, FALSE, ev, skip, args))
    /\ hist' = [hist EXCEPT !.emits = @ + 1]
    /\ UNCHANGED <<sampler, emitter, cputicks, nanotime, reader, stopper, sysexit, out>>

\* One session with events of every argument count, with and without a stack,
\* up to events that are longer than traceEventLocked reserves room for, and
\* with user log events, whose room includes the message.
EncSessions == 1
EncEmits == 1
EncEvents == 2
EncArgs == {[i \in 1 .. n |-> v] : n \in {0, 1, 2, 3, 24, 25}, v \in {1, 200}}
NextEnc ==
    \/ NextOf({Reader1}, EncSessions, EncEmits)
    \/ (\E skip \in {-1, 0, 1} : \E args \in EncArgs :
            DoEvent(MainP, traceEvHeapAlloc, skip, args, EncEvents))
    \/ DoUserLog(MainP, Str(1), Str(1), EncEvents)

SpecEnc == Init /\ [][NextEnc]_vars

\* One session with profiling signals on threads with and without a
\* processor and a goroutine, more of them than the ring has room for.
ProfSessions == 1
ProfEmits == 1
ProfSamples == 3
NextProf ==
    \/ NextOf({Reader1}, ProfSessions, ProfEmits)
    \/ (\E pp \in Procs \cup {traceGlobProc} : \E gp \in {0, MainG} :
            DoCPUSampleOn(pp, gp, ProfSamples))

SpecProf == Init /\ [][NextProf]_vars

\* Two sessions under fair scheduling.
LiveSessions == 2
LiveEmits == 1
NextLive == NextOf({Reader1}, LiveSessions, LiveEmits)

\* A step of reader r: a call of ReadTrace or the next step of one.
ReaderStep(r, ne) ==
    \/ DoReadTrace(r, ne)
    \/ StartReader(r)
    \/ FinishFlush(r)
    \/ ResumeReadTrace(r)
    \/ DumpWrite(r)
    \/ DumpFinish(r)

\* Reader r can take a step: it is not parked (it calls ReadTrace again
\* whenever the last call has returned).
ReaderCan(r) == Running /\ reader[r].pc # "parked"

\* The scheduler finds a reader to wake.
WakeCan == Running /\ (trace.enabled \/ trace.shutdown) /\ traceReaderAvailable(trace)

\* Fair scheduling: StopTrace goes on once the semaphore is posted; the reader
\* runs when it can; the parked reader is woken when traceReaderAvailable
\* holds. The last two are weak fairness with the enabling condition written
\* out.
Fairness ==
    /\ WF_vars(StopTraceWake)
    /\ ([]<>~ReaderCan(Reader1) \/ []<><<ReaderStep(Reader1, LiveEmits)>>_vars)
    /\ ([]<>~WakeCan \/ []<><<\E p \in Procs : WakeReader(p)>>_vars)

SpecLive == Init /\ [][NextLive]_vars /\ Fairness

\* ------------------------------------------------------------- properties

\* The buffers of the list starting at b, following link for at most fuel
\* steps.
RECURSIVE ListFrom(_, _)
ListFrom(b, fuel) ==
    IF b = 0 \/ fuel = 0 THEN <<>> ELSE <<b>> \o ListFrom(bufs[b].link, fuel - 1)

\* How often b occurs in seq.
Occ(seq, b) == Cardinality({i \in 1 .. Len(seq) : seq[i] = b})

EmptyList == ListFrom(trace.empty, MaxBufs + 1)
FullList == ListFrom(trace.fullHead, MaxBufs + 1)

\* The number of locations that hold buffer b.
Locations(b) ==
    Cardinality({p \in Procs : tracebuf[p] = b})
    + (IF trace.buf = b THEN 1 ELSE 0)
    + (IF trace.cpuLogBuf = b THEN 1 ELSE 0)
    + Cardinality({r \in DOMAIN reader : reader[r].pc = "dumped" /\ reader[r].bufp = b})
    + Occ(EmptyList, b)
    + Occ(FullList, b)
    + (IF trace.reading = b THEN 1 ELSE 0)

\* C1: whenever no traceFlush is under way, every allocated trace buffer is
\* in exactly one location: a processor's p.tracebuf, trace.buf,
\* trace.cpuLogBuf, the local buffer of the stack dump, the empty list, the
\* full queue or trace.reading.
C1_OneLocation == CanStop => \A b \in BufIds : bufs[b].alloc => Locations(b) = 1

\* C1: a reader woken with trace.lockOwner still naming it was started on a
\* processor with a full buffer, its traceFlush ran without trace.lock, and
\* the buffer it took is a processor's buffer and is held elsewhere too.
C1_TwoOwners ==
    /\ CanStop
    /\ \E b \in BufIds : \E p \in Procs :
          bufs[b].alloc /\ tracebuf[p] = b /\ Locations(b) = 2
    /\ reader[Reader1].pc = "running"

\* The sum of the tick differences written to a buffer with the events evs
\* (Batch, String and Stack events carry none).
RECURSIVE SumDeltas(_)
SumDeltas(evs) ==
    IF evs = <<>> THEN 0
    ELSE (IF Head(evs).ev \in {traceEvBatch, traceEvString, traceEvStack}
          THEN 0 ELSE Head(evs).vals[1]) + SumDeltas(Tail(evs))

\* Buffer b is held by a producer, is in the full queue or was handed out by
\* ReadTrace.
InUse(b) ==
    \/ \E p \in Procs : tracebuf[p] = b
    \/ trace.buf = b
    \/ trace.cpuLogBuf = b
    \/ \E r \in DOMAIN reader : reader[r].pc = "dumped" /\ reader[r].bufp = b
    \/ Occ(FullList, b) > 0
    \/ trace.reading = b

\* Buffer b is not empty and begins with a Batch event that carries its
\* opening tick.
BatchFirst(b) ==
    /\ bufs[b].pos > 0
    /\ bufs[b].ev # <<>>
    /\ bufs[b].ev[1].ev = traceEvBatch
    /\ bufs[b].lastTicks = Uint64(bufs[b].ev[1].vals[2] + SumDeltas(bufs[b].ev))

\* The Batch event of buffer b carries the processor id its holder passes to
\* traceFlush.
BatchPid(b) ==
    /\ \A p \in Procs : tracebuf[p] = b => bufs[b].ev[1].vals[1] = Uint64(p)
    /\ trace.buf = b => bufs[b].ev[1].vals[1] = Uint64(traceGlobProc)
    /\ trace.cpuLogBuf = b => bufs[b].ev[1].vals[1] = 0
    /\ \A r \in DOMAIN reader :
          reader[r].pc = "dumped" /\ reader[r].bufp = b => bufs[b].ev[1].vals[1] = 0

\* C2: every buffer held by a producer, in the full queue or handed out by
\* ReadTrace is non-empty (pos > 0) and begins with a Batch event carrying the
\* processor id its holder passed to traceFlush and the opening tick.
C2_BatchFirst == \A b \in BufIds : bufs[b].alloc /\ InUse(b) => BatchFirst(b) /\ BatchPid(b)

\* C2: a processor holds a buffer that begins with a Batch event of another
\* processor, after the reader's traceFlush without trace.lock.
C2_ForeignBatch ==
    \E p \in Procs : /\ tracebuf[p] # 0
                     /\ BatchFirst(tracebuf[p])
                     /\ bufs[tracebuf[p]].ev[1].vals[1] # Uint64(p)
                     /\ reader[Reader1].pc = "running"

\* The events evs, written after an event of tick t, have strictly increasing
\* ticks: the tick of an event is the tick before it plus its tick difference,
\* in uint64 arithmetic.
RECURSIVE TicksIncrease(_, _)
TicksIncrease(evs, t) ==
    IF evs = <<>> THEN TRUE
    ELSE IF Head(evs).ev \in {traceEvBatch, traceEvString, traceEvStack}
    THEN TicksIncrease(Tail(evs), t)
    ELSE /\ Head(evs).vals[1] >= 1
         /\ Uint64(t + Head(evs).vals[1]) > t
         /\ TicksIncrease(Tail(evs), Uint64(t + Head(evs).vals[1]))

\* C3: in every trace buffer the tick of each event (the opening tick of the
\* Batch event, then the running sum of the tick differences) is strictly
\* greater than the tick of the event before it.
C3_TicksIncrease ==
    \A b \in BufIds :
        bufs[b].alloc /\ bufs[b].ev # <<>> /\ bufs[b].ev[1].ev = traceEvBatch
            => TicksIncrease(bufs[b].ev, bufs[b].ev[1].vals[2])

\* C3: a buffer holds an event written at the same cputicks()/traceTickDiv as
\* two events before it: its tick difference is uint64(-1).
C3_Wrapped ==
    \E b \in BufIds : \E i \in 1 .. Len(bufs[b].ev) :
        /\ bufs[b].alloc
        /\ bufs[b].ev[i].ev = traceEvGoCreate
        /\ bufs[b].ev[i].vals[1] = U64 - 1

\* C4: in every session the first chunk ReadTrace returns is the header, no
\* buffer payload is returned before it, and the header is returned at most
\* once.
C4_HeaderFirst ==
    hist.session >= 1 => hist.first \in {"", rtHeader} /\ hist.headers <= 1

\* C4: a reader that parked in ReadTrace before StartTrace is woken in the
\* session and ReadTrace returns a buffer as the first chunk of the session.
C4_BufferFirst ==
    /\ hist.session >= 1
    /\ hist.first = rtBuffer
    /\ out = [op |-> "ReadTrace", g |-> Reader1, val |-> rtBuffer]
    /\ ~trace.headerWritten

\* A step in which ReadTrace decides to write the footer.
FooterStep == \E r \in DOMAIN reader : reader[r].pc # "dump" /\ reader'[r].pc = "dump"

\* A step in which ReadTrace posts trace.shutdownSema (and returns nil).
PostStep == trace'.shutdownSema > trace.shutdownSema

\* C5: within a session ReadTrace returns the footer at most once; it decides
\* to write it only when shutdown is set and the full queue is empty; and it
\* posts the shutdown semaphore and returns nil only after the footer was
\* returned in this session, with the stack dump finished and every queued
\* buffer handed out.
C5_FooterOnce ==
    [][/\ hist'.footers <= 1
       /\ FooterStep => trace.shutdown /\ trace'.fullHead = 0
       /\ PostStep => /\ hist.footers >= 1 /\ hist'.nils >= 1
                      /\ trace.shutdown /\ trace'.fullHead = 0
                      /\ \A r \in DOMAIN reader : reader[r].pc \notin {"dump", "dumped"}]_vars

\* C5: ReadTrace returned the footer twice in the third session: the footer of
\* the second session, whose StopTrace returned on a stale semaphore count
\* while the reader was dumping, and the footer of the third.
C5_TwoFooters ==
    /\ hist.session = 3
    /\ hist.footers = 2
    /\ out = [op |-> "ReadTrace", g |-> Reader1, val |-> rtFooter]

\* A step in which StopTrace, having waited on trace.shutdownSema, returns.
StopReturn == stopper = "wait" /\ stopper' = "idle" /\ fatal' = ""

\* C6: StopTrace called with tracing enabled returns only after ReadTrace has
\* returned the footer and nil in this session, with no stack dump in
\* progress and no buffer left on the full queue or in trace.reading.
C6_StopWaits ==
    [][StopReturn => /\ hist.nils >= 1
                     /\ hist.footers >= 1
                     /\ trace.fullHead = 0 /\ trace.reading = 0
                     /\ \A r \in DOMAIN reader : reader[r].pc \notin {"dump", "dumped"}]_vars

\* C6: StopTrace has returned in the second session although ReadTrace has
\* not returned nil in it and the reader has yet to dump the stack table.
C6_EarlyReturn ==
    /\ hist.session = 2
    /\ hist.nils = 0
    /\ stopper = "idle"
    /\ ~trace.enabled /\ ~trace.shutdown
    /\ out = [op |-> "StopTrace", g |-> MainG, val |-> "stopped"]
    /\ reader[Reader1].pc = "dump"

\* The messages of the fatal checks at the end of StopTrace.
StopThrows ==
    {"trace: non-empty trace buffer in proc", "trace: non-empty global trace buffer",
     "trace: non-empty full trace buffer", "trace: reading after shutdown"}

\* C7: when StopTrace passes the shutdown semaphore every processor's buffer
\* and the global buffer are nil, the full queue is empty, trace.reading is 0
\* and no reader is parked, so none of its fatal checks fires; when it
\* returns the empty list is empty and shutdown is false.
C7_StopClean ==
    [][stopper = "wait" /\ stopper' = "idle" =>
          /\ \A p \in Procs : tracebuf[p] = 0
          /\ trace.buf = 0
          /\ trace.fullHead = 0 /\ trace.fullTail = 0
          /\ trace.reading = 0 /\ trace.reader = 0
          /\ fatal' \notin StopThrows
          /\ trace'.empty = 0 /\ ~trace'.shutdown]_vars

\* C7: StopTrace passed the semaphore in the second session and aborted on a
\* buffer that was still on the full queue.
C7_StopThrew ==
    /\ fatal = "trace: non-empty full trace buffer"
    /\ hist.session = 2
    /\ stopper = "idle"
    /\ trace.shutdown /\ trace.fullHead # 0

\* StopTrace has returned and ReadTrace has returned nil in this session.
Stopped ==
    /\ Running /\ CanStop
    /\ hist.session >= 1 /\ hist.nils >= 1
    /\ stopper = "idle"
    /\ ~trace.enabled /\ ~trace.shutdown

\* StartTrace returned nil and left a session with the flags reset and the
\* stack table numbered from 1.
FreshSession(m) ==
    /\ m.ret = 0 /\ m.fatal = ""
    /\ m.trace.enabled /\ ~m.trace.shutdown
    /\ ~m.trace.headerWritten /\ ~m.trace.footerWritten
    /\ m.trace.stackTab.seq = Len(m.trace.stackTab.tab)
    /\ m.trace.stackTab.seq >= 1
    /\ \A i \in 1 .. Len(m.trace.stackTab.tab) : m.trace.stackTab.tab[i].id = i

\* The string table holds exactly the labels of gcMarkWorkerModeStrings,
\* numbered from 1.
LabelsOnly(t) ==
    /\ ~t.strings.isnil
    /\ t.stringSeq = Len(gcMarkWorkerModeStrings)
    /\ t.strings.m = [i \in 1 .. Len(gcMarkWorkerModeStrings) |->
                         [s |-> gcMarkWorkerModeStrings[i], id |-> i]]
    /\ t.markWorkerLabels = [i \in 1 .. Len(gcMarkWorkerModeStrings) |-> i]

\* C8 (as stated): after StopTrace has returned and ReadTrace has returned nil,
\* StartTrace returns nil and leaves enabled = true, shutdown, headerWritten
\* and footerWritten false, stack ids starting again at 1, and an empty
\* string table.
C8_RestartEmptyStrings ==
    Stopped =>
        /\ trace.stackTab.seq = 0
        /\ FreshSession(StartTrace(Mem, MainP, AllGs({Reader1})))
        /\ StartTrace(Mem, MainP, AllGs({Reader1})).trace.strings.m = <<>>

\* C8 (amended): after StopTrace has returned and ReadTrace has returned nil,
\* StartTrace returns nil and leaves enabled = true, shutdown, headerWritten
\* and footerWritten false, stack ids starting again at 1, and a string table
\* that was reset and holds exactly the goroutine labels StartTrace registers.
C8_Restart ==
    Stopped =>
        /\ trace.stackTab.seq = 0
        /\ FreshSession(StartTrace(Mem, MainP, AllGs({Reader1})))
        /\ LabelsOnly(StartTrace(Mem, MainP, AllGs({Reader1})).trace)

\* C8: the third session has just been started, after a second session in
\* which ReadTrace returned nil; the string table holds the labels.
C8_Restarted ==
    /\ hist.session = 3 /\ hist.prev >= 1
    /\ out = [op |-> "StartTrace", g |-> MainG, val |-> "nil"]
    /\ trace.enabled /\ ~trace.headerWritten /\ tracebuf[MainP] # 0
    /\ hist.emits = 0 /\ hist.first = ""
    /\ LabelsOnly(trace)

\* C9: StartTrace called while trace.enabled or trace.shutdown is true returns
\* the error "tracing is already enabled" (ret = 1) and changes nothing:
\* every field of the tracing state, every buffer and queue is as before,
\* bufLock and sysmonlock are released and the world is running.
C9_AlreadyEnabled ==
    Running /\ CanStop /\ (trace.enabled \/ trace.shutdown) =>
        /\ StartTrace(Mem, MainP, AllGs({Reader1})) = [Mem EXCEPT !.ret = 1]
        /\ StartTrace(Mem, MainP, AllGs({Reader1})).trace.bufLock = 0
        /\ StartTrace(Mem, MainP, AllGs({Reader1})).sched = [sysmonlock |-> 0, stw |-> FALSE]

\* C9: StartTrace called while StopTrace waits for the reader (shutdown set,
\* enabled already reset, buffers queued) returns the error.
C9_RefusedInShutdown ==
    /\ Running /\ CanStop
    /\ trace.shutdown /\ ~trace.enabled
    /\ stopper = "wait"
    /\ trace.fullHead # 0
    /\ StartTrace(Mem, MainP, AllGs({Reader1})).ret = 1

\* A call of ReadTrace by goroutine r can start while another reader is
\* registered.
SecondReader(r) ==
    /\ Running
    /\ reader[r].pc = "idle" /\ ~InFlush(reader[r].p)
    /\ trace.reader # 0

\* C10: a ReadTrace call made while trace.reader != 0 returns empty with the
\* "multiple goroutines" diagnostic, does not abort, and changes no tracing
\* state (trace.reading, the queues, headerWritten, footerWritten, the
\* shutdown semaphore, trace.reader) except that trace.lock is released and
\* lockOwner is nil.
C10_MultipleReaders ==
    \A r \in DOMAIN reader :
        SecondReader(r) =>
            /\ trace.reader # r
            /\ ReadTrace(Mem, r, reader[r].p) =
                   [Mem EXCEPT !.trace.lock = 0, !.trace.lockOwner = 0, !.ret = rtMultiple]
            /\ trace.lock = 0

\* C10: the second reader's call has returned empty while the first reader
\* is parked in ReadTrace with tracing enabled.
C10_Refused ==
    /\ out = [op |-> "ReadTrace", g |-> Reader2, val |-> rtMultiple]
    /\ trace.reader = Reader1
    /\ reader[Reader1].pc = "parked"
    /\ reader[Reader2].pc = "idle"
    /\ trace.enabled
    /\ trace.lock = 0 /\ trace.lockOwner = 0

\* C11: under fair scheduling, once StopTrace (called with tracing enabled)
\* waits for the reader, ReadTrace eventually returns nil in the session and
\* StopTrace eventually returns.
C11_StopReturns ==
    /\ (stopper = "wait") ~> (stopper = "idle" /\ fatal = "")
    /\ (stopper = "wait") ~> (hist.nils >= 1)

\* C11: the StopTrace of the second session has aborted instead of returning,
\* and ReadTrace has returned nothing in the session.
C11_Aborted ==
    /\ hist.session = 2
    /\ hist.first = "" /\ hist.nils = 0
    /\ stopper = "idle"
    /\ fatal \in StopThrows

\* The number of Stack records with id in the observations h.
StackRecords(h, id) == Cardinality({i \in 1 .. Len(h.stacks) : h.stacks[i] = id})

\* C12: in the stream of a session that ReadTrace has ended with nil, each
\* stack id an event carries is the id of exactly one Stack record, and no
\* Stack record has id 0.
C12_StackOnce ==
    hist.nils >= 1 =>
        /\ \A id \in hist.refs : StackRecords(hist, id) = 1
        /\ StackRecords(hist, 0) = 0

\* C12: a stream has ended in which an event carries a stack id and two Stack
\* records have that id, or none.
C12_StackTwiceOrNever ==
    /\ hist.nils >= 1
    /\ \E id \in hist.refs : StackRecords(hist, id) # 1

\* The number of String records with id in the observations h.
StringRecords(h, id) == Cardinality({i \in 1 .. Len(h.strs) : h.strs[i] = id})

\* C13: in the stream of a session that ReadTrace has ended with nil, each
\* string id a Stack record or a user annotation refers to is the id of exactly
\* one String record, and no String record has id 0; traceString gives id 0 to
\* the empty string and to no other.
C13_StringOnce ==
    /\ hist.nils >= 1 =>
           /\ \A id \in hist.srefs : StringRecords(hist, id) = 1
           /\ StringRecords(hist, 0) = 0
    /\ \A p \in Procs : InEmit(p) => (emitter[p].id = 0 <=> emitter[p].name = <<>>)

\* C13: a stream has ended in which a Stack record refers to a string id that
\* two String records have, or none.
C13_StringTwiceOrNever ==
    /\ hist.nils >= 1
    /\ \E id \in hist.srefs : StringRecords(hist, id) # 1

\* The events for goroutine g that carry a sequence number (GoStart, GoUnblock)
\* and are written by the step: buffer and position.
SeqEvents(g) ==
    UNION {{<<b, i>> : i \in {j \in 1 .. Len(bufs'[b].ev) :
                /\ bufs'[b].ev[j].ev \in {traceEvGoStart, traceEvGoUnblock}
                /\ bufs'[b].ev[j].vals[2] = g
                /\ \/ j > Len(bufs[b].ev)
                   \/ SubSeq(bufs'[b].ev, 1, Len(bufs[b].ev)) # bufs[b].ev}}
           : b \in {c \in BufIds : bufs'[c].ev # bufs[c].ev}}

C15_FooterOrder ==
    /\ ~hist.headless
    /\ traceEvBatch \notin hist.post
    /\ hist.pre \cap {traceEvStack, traceEvString} = {}

\* C15: a Stack record was returned in a session before its Frequency event.
C15_StackBeforeFooter == hist.footers = 0 /\ traceEvStack \in hist.pre

\* The step is an emit that, with its buffer acquired, finds trace.enabled
\* false: traceEvent of the thread without a P, or trace_userRegion on a
\* processor.
DisabledEmit ==
    /\ ~trace.enabled
    /\ \/ sysexit /\ ~sysexit'
       \/ \E p \in Procs : emitter[p].pc = "seen" /\ emitter'[p].pc # "seen"

EventTicks(evs) ==
    {Uint64(evs[1].vals[2] + SumDeltas(SubSeq(evs, 1, i))) : i \in 1 .. Len(evs)}

\* Processor p rotates its buffer in this step: traceFlush queued the buffer
\* it held and gave it another one.
Rotates(p) == tracebuf[p] # 0 /\ tracebuf'[p] # 0 /\ tracebuf'[p] # tracebuf[p]

\* C18: when a processor's buffer is rotated, the opening tick of the Batch
\* event of the buffer rotated in is greater than or equal to the tick of every
\* event of the buffer the processor held before, also when events of that
\* buffer had their tick forced to lastTicks + 1.
C18_BatchAfterPrevious ==
    [][\A p \in Procs :
          Rotates(p) /\ bufs[tracebuf[p]].ev # <<>> /\ bufs[tracebuf[p]].ev[1].ev = traceEvBatch
              => \A t \in EventTicks(bufs[tracebuf[p]].ev) :
                     bufs'[tracebuf'[p]].ev[1].vals[2] >= t]_vars

\* C18: a processor holds a buffer whose Batch event has an opening tick lower
\* than the tick of an event in a buffer of the same processor in the full
\* queue.
C18_BatchBehind ==
    \E p \in Procs : \E b \in BufIds :
        /\ tracebuf[p] # 0
        /\ Occ(FullList, b) > 0
        /\ BatchFirst(b) /\ bufs[b].ev[1].vals[1] = Uint64(p)
        /\ BatchFirst(tracebuf[p]) /\ bufs[tracebuf[p]].ev[1].vals[1] = Uint64(p)
        /\ \E t \in EventTicks(bufs[b].ev) : t > bufs[tracebuf[p]].ev[1].vals[2]
        /\ fatal = ""

\* StopTrace has left its clock loop and the session it stopped is still the
\* one the fields of trace describe.
LeftClockLoop == trace.shutdown /\ ~trace.enabled /\ stopper = "wait"

\* C19: when StopTrace has left its clock loop, ticksEnd > ticksStart and
\* timeEnd > timeStart for any non-decreasing clocks, the frequency ReadTrace
\* computes for the footer is > 0, and ReadTrace does not abort with "invalid
\* frequency".
C19_ClocksAdvanced ==
    /\ LeftClockLoop => /\ trace.ticksEnd > trace.ticksStart
                        /\ trace.timeEnd > trace.timeStart
                        /\ ~freqInvalid(trace)
    /\ fatal # "trace: ReadTrace got invalid frequency"

\* C19: ReadTrace aborted on the frequency after a StopTrace during which
\* cputicks() returned what it returned to StartTrace.
C19_InvalidFrequency ==
    /\ fatal = "trace: ReadTrace got invalid frequency"
    /\ trace.ticksEnd = trace.ticksStart
    /\ trace.timeEnd > trace.timeStart

\* This step is a call of traceGoPark(traceEv, 1) on processor p that
\* returned.
ParkStep(p, traceEv) == DoGoPark(p, traceEv, ParkEmits) /\ fatal' = ""

\* C20: traceGoPark with the futile-wakeup bit leaves, at the end of the buffer
\* the processor holds, a FutileWakeup event and right after it the block event
\* (the type with the bit cleared): both in the same buffer, nothing between
\* them. Without the bit it writes only the block event.
C20_FutileThenBlock ==
    [][\A p \in Procs :
          /\ ParkStep(p, traceEvGoBlockSync + traceFutileWakeup) =>
                 /\ Len(bufs'[tracebuf'[p]].ev) >= 2
                 /\ Suffix(Types(bufs'[tracebuf'[p]].ev), Len(bufs'[tracebuf'[p]].ev) - 2)
                        = <<traceEvFutileWakeup, traceEvGoBlockSync>>
                 /\ Len(SelectSeq(Written(p), LAMBDA e : e.ev # traceEvBatch)) = 2
          /\ ParkStep(p, traceEvGoBlockSync) =>
                 Types(SelectSeq(Written(p), LAMBDA e : e.ev # traceEvBatch))
                     = <<traceEvGoBlockSync>>]_vars

\* C20, amended: traceGoPark with the futile-wakeup bit writes a FutileWakeup
\* event and then the block event, the next event of the processor: either
\* next to each other in one buffer or, when the buffer has no room left after
\* FutileWakeup, FutileWakeup as the last event of the buffer that is queued
\* and the block event right after the Batch event of the buffer rotated in.
\* The block event carries the id of the parking goroutine's stack. Without
\* the bit only the block event is written.
C20_FutileThenBlockOrBatch ==
    [][\A p \in Procs :
          /\ ParkStep(p, traceEvGoBlockSync + traceFutileWakeup) =>
                 /\ Types(Written(p)) \in
                        {<<traceEvFutileWakeup, traceEvGoBlockSync>>,
                         <<traceEvBatch, traceEvFutileWakeup, traceEvGoBlockSync>>,
                         <<traceEvFutileWakeup, traceEvBatch, traceEvGoBlockSync>>}
                 /\ Written(p)[Len(Written(p))].vals[2]
                        = find(trace'.stackTab, traceStackFrames(Worker(p)))
                 /\ Written(p)[Len(Written(p))].vals[2] # 0
          /\ ParkStep(p, traceEvGoBlockSync) =>
                 /\ Types(Written(p)) \in {<<traceEvGoBlockSync>>,
                                            <<traceEvBatch, traceEvGoBlockSync>>}
                 /\ Written(p)[Len(Written(p))].vals[2]
                        = find(trace'.stackTab, traceStackFrames(Worker(p)))]_vars

\* C20: a processor's buffer begins with the Batch event and the block event
\* of a park after a futile wakeup, and the FutileWakeup event is the last
\* event of a buffer of that processor in the full queue.
C20_SplitByFlush ==
    \E p \in Procs : \E b \in BufIds :
        /\ out = [op |-> "traceGoPark", g |-> Worker(p), val |-> "futile"]
        /\ tracebuf[p] # 0
        /\ Types(bufs[tracebuf[p]].ev) = <<traceEvBatch, traceEvGoBlockSync>>
        /\ Occ(FullList, b) > 0
        /\ bufs[b].ev[1].vals[1] = Uint64(p)
        /\ bufs[b].ev[Len(bufs[b].ev)].ev = traceEvFutileWakeup

\* This step is a call of traceGoSysExit(ts) on processor p that returned.
SysExitStep(p, ts) == DoGoSysExit(p, ts, SysEmits) /\ fatal' = ""

\* The real-timestamp argument of the GoSysExit event written in this step
\* for processor p.
SysExitArg(p) == Written(p)[Len(Written(p))].vals[4]

\* C21: traceGoSysExit(ts) writes a GoSysExit event whose real-timestamp
\* argument is 0 when ts < trace.ticksStart and ts / traceTickDiv otherwise:
\* it is 0 or at least ticksStart / traceTickDiv, and never a wrapped-around
\* value (it is not ahead of the clock).
C21_SysExitArg ==
    [][\A p \in Procs : \A ts \in {0, cputicks - traceTickDiv, cputicks} :
          SysExitStep(p, ts) =>
              /\ Written(p)[Len(Written(p))].ev = traceEvGoSysExit
              /\ Len(Written(p)[Len(Written(p))].vals) = 4
              /\ ts < trace.ticksStart => SysExitArg(p) = 0
              /\ ts >= trace.ticksStart => SysExitArg(p) = ts \div traceTickDiv
              /\ SysExitArg(p) = 0 \/ SysExitArg(p) >= trace.ticksStart \div traceTickDiv
              /\ SysExitArg(p) <= cputicks \div traceTickDiv]_vars

\* C21: a GoSysExit event with argument 0 was written for a system call left
\* one tick before the tick at which the trace was started.
C21_BeforeStart ==
    /\ out = [op |-> "traceGoSysExit", g |-> MainG, val |-> "before"]
    /\ trace.ticksStart >= 2 * traceTickDiv
    /\ \E p \in Procs :
          /\ tracebuf[p] # 0
          /\ bufs[tracebuf[p]].ev[Len(bufs[tracebuf[p]].ev)].ev = traceEvGoSysExit
          /\ bufs[tracebuf[p]].ev[Len(bufs[tracebuf[p]].ev)].vals[4] = 0

\* C22: a traceFlush that did not take trace.lock runs on the thread that
\* holds it: while a goroutine is inside such a traceFlush, between queueing
\* the full buffer and taking a buffer from trace.empty, trace.lock is held for
\* that goroutine, so nobody else changes the two lists.
C22_SkipOnlyWhenHeld ==
    \A r \in DOMAIN reader : reader[r].pc = "flush" => trace.lock = r

\* C22: the reader, restarted with trace.lockOwner still set, is inside a
\* traceFlush that queued a buffer while nobody holds trace.lock.
C22_FlushWithoutLock ==
    \E r \in DOMAIN reader :
        /\ reader[r].pc = "flush"
        /\ trace.lockOwner = r
        /\ trace.lock = 0
        /\ trace.fullHead # 0
        /\ fatal = ""

\* C23: in every interleaving of traceCPUSample with StartTrace and StopTrace,
\* a handler writes its sample only to a ring StartTrace has published and
\* StopTrace has not closed: a sample arriving around the start or the stop is
\* discarded.
C23_NoWriteAfterClose ==
    [][\A t \in SysThreads :
          SampleWrite(t) /\ sampler[t].log # "nil" =>
              /\ sampler[t].log = "open"
              /\ ~trace.cpuLogRead.isnil /\ ~trace.cpuLogRead.closed
              /\ trace.cpuLogWrite]_vars

\* C23: a handler that loaded trace.cpuLogWrite before StopTrace set it to nil
\* wrote its sample after StopTrace closed and drained the ring.
C23_WrittenAfterClose ==
    \E t \in SysThreads :
        /\ out = [op |-> "traceCPUSample", g |-> t, val |-> "written after close"]
        /\ ~trace.enabled
        /\ ~trace.cpuLogWrite
        /\ fatal = ""

\* The handlers between the compare-and-swap of trace.signalLock and its
\* release.
Holders == {t \in SysThreads : sampler[t].pc = "loaded"}

\* At most one handler holds trace.signalLock, and the lock is taken exactly
\* while a handler holds it.
OneWriter ==
    /\ Cardinality(Holders) <= 1
    /\ trace.signalLock = (IF Holders = {} THEN 0 ELSE 1)

\* This step is a step of a signal handler inside traceCPUSample.
HandlerStep ==
    \E t \in SysThreads : SampleSee(t, SignalEmits) \/ SampleLock(t) \/ SampleWrite(t)

\* C24: at most one handler is between acquiring and releasing
\* trace.signalLock; the lock is held only while a handler is there (it is
\* released on every path, also when trace.cpuLogWrite is nil, so the next
\* handler can take it); and no step of a handler takes or releases a mutex
\* (trace.lock, trace.bufLock, sched.sysmonlock).
C24_OneWriter ==
    [][/\ OneWriter'
       /\ HandlerStep => UNCHANGED <<trace.lock, trace.bufLock, sched>>]_vars

\* C24: a handler has released trace.signalLock after finding
\* trace.cpuLogWrite nil, and the handler that was waiting behind it holds the
\* lock.
C24_NextAcquired ==
    \E t, u \in SysThreads :
        /\ out = [op |-> "traceCPUSample", g |-> t, val |-> "discarded"]
        /\ sampler[t].pc = "idle"
        /\ sampler[u].pc = "loaded"
        /\ trace.signalLock = 1

\* This step is a call of traceGCSweepStart, of traceGCSweepSpan or of
\* traceGCSweepDone on processor p.
SweepStartStep(p) == DoSweepStart(p, SweepEmits)
SweepSpanStep(p) == \E n \in SweepBytes : DoSweepSpan(p, n, SweepEmits)
SweepDoneStep(p) == DoSweepDone(p, SweepEmits)

PutInputs == {<<>>, <<110>>, <<150>>, <<100 + MainG>>, <<StartPC(MainG)>>, <<114, 110>>}

\* The stack table numbers its records 1..seq in the order they were added,
\* holds no empty sequence and no sequence twice.
TableDense(tab) ==
    /\ tab.seq = Len(tab.tab)
    /\ \A k \in 1 .. Len(tab.tab) : tab.tab[k].id = k /\ tab.tab[k].stk # <<>>
    /\ \A i, j \in 1 .. Len(tab.tab) : tab.tab[i].stk = tab.tab[j].stk => i = j

\* What put(pcs) does to the table of memory m.
PutDense(m, pcs) ==
    LET tab == m.trace.stackTab
        n == put(m, pcs)
        known == {k \in 1 .. Len(tab.tab) : tab.tab[k].stk = pcs}
    IN /\ pcs = <<>> => n.ret = 0 /\ n.trace.stackTab = tab
       /\ pcs # <<>> /\ known # {} =>
              /\ n.ret \in known
              /\ n.trace.stackTab = tab
       /\ pcs # <<>> /\ known = {} =>
              /\ n.ret = tab.seq + 1
              /\ n.trace.stackTab.seq = tab.seq + 1
              /\ n.trace.stackTab.tab = Append(tab.tab, [id |-> tab.seq + 1, stk |-> pcs])

Parks(r) == reader[r].pc = "idle" /\ reader'[r].pc = "parked"

\* The scheduler hands reader r out: traceReader returned it.
HandsOut(r) == reader[r].pc = "parked" /\ reader'[r].pc = "runnable"

\* The woken reader r takes trace.lock again and leaves ReadTrace without a
\* throw.
Resumes(r) == reader[r].pc = "running" /\ reader'[r].pc # "running" /\ fatal' = ""

\* C27: a call of ReadTrace parks only if it found the full queue empty and
\* shutdown unset; a parked reader is the one registered in trace.reader and
\* no other reader is registered, so that traceReaderAvailable holds as soon
\* as a buffer is queued or shutdown is set; traceReader hands the reader out
\* only when traceReaderAvailable holds and clears trace.reader, so it is not
\* handed out again; the resumed reader finds a buffer or shutdown and does
\* not return by the "spurious wakeup" path; and under fair scheduling a
\* parked reader with a buffer queued or shutdown set leaves ReadTrace.
C27_NoLostWakeup ==
    /\ [][\A r \in DOMAIN reader :
            /\ Parks(r) => trace.fullHead = 0 /\ ~trace.shutdown
            /\ Running' => ((reader'[r].pc = "parked") <=> (trace'.reader = r))
            /\ reader'[r].pc = "parked" /\ (trace'.fullHead # 0 \/ trace'.shutdown) =>
                   traceReaderAvailable(trace')
            /\ HandsOut(r) =>
                   /\ traceReaderAvailable(trace)
                   /\ trace'.reader = 0 /\ ~traceReaderAvailable(trace')
            /\ Resumes(r) =>
                   /\ trace.fullHead # 0 \/ trace.shutdown
                   /\ out'.val \in {rtBuffer, rtFooter, rtDone} \/ reader'[r].pc = "dump"]_vars
    /\ \A r \in {Reader1, Reader2} :
           (reader[r].pc = "parked" /\ (trace.fullHead # 0 \/ trace.shutdown))
               ~> (reader[r].pc = "idle" \/ ~Running)

\* C27: the reader parked, a producer then queued a buffer, and traceReader
\* has handed the reader out and cleared trace.reader; the reader has not run
\* yet.
C27_HandedOut ==
    /\ reader[Reader1].pc = "runnable"
    /\ trace.reader = 0
    /\ trace.fullHead # 0 /\ ~trace.shutdown

\* The full queue new follows from the queue old by first-in, first-out
\* steps: buffers are added at the tail, and at most one is taken, from the
\* head, and becomes trace.reading (rd).
FifoStep(old, new, rd) ==
    \/ /\ Len(new) >= Len(old)
       /\ SubSeq(new, 1, Len(old)) = old
    \/ /\ old # <<>>
       /\ Len(new) >= Len(old) - 1
       /\ SubSeq(new, 1, Len(old) - 1) = Tail(old)
       /\ rd = Head(old)
    \/ /\ old = <<>>
       /\ rd # 0 /\ Occ(new, rd) = 0

\* The full queue is a list without repetition from fullHead to fullTail.
QueueEnds ==
    /\ (trace.fullHead = 0) <=> (trace.fullTail = 0)
    /\ \A b \in BufIds : Occ(FullList, b) <= 1
    /\ FullList # <<>> => trace.fullTail = FullList[Len(FullList)]

\* C28: every step adds buffers at the tail of the full queue and takes at
\* most one, the head, which ReadTrace hands out as trace.reading; no buffer
\* is in the queue twice; and fullHead = 0 iff fullTail = 0.
C28_Fifo == [][FifoStep(FullList, FullList', trace'.reading) /\ QueueEnds']_vars

\* C28: a buffer is linked to itself in the full queue, so that ReadTrace
\* would hand it out again and again: StopTrace queued it for two processors.
C28_QueuedTwice ==
    /\ trace.shutdown
    /\ \E b \in BufIds : Occ(FullList, b) >= 2 /\ bufs[b].link = b

\* The String and UserLog events of the buffers, as pairs <<b, i>>.
TextEvents ==
    {bi \in BufIds \X (1 .. BufLen) :
        /\ bi[2] <= Len(bufs[bi[1]].ev)
        /\ bufs[bi[1]].ev[bi[2]].ev \in {traceEvString, traceEvUserLog}}

\* The length varint of the String or UserLog event e.
TextLen(e) == e.vals[Len(e.vals)]

\* C29: in every state the write position of every buffer is within its
\* array, and traceString and trace_userLog never fail on a string or message
\* that does not fit: no slice or index expression of theirs is out of range.
C29_WithinBuffer ==
    /\ \A b \in BufIds : 0 <= bufs[b].pos /\ bufs[b].pos <= BufLen
    /\ fatal \notin {"slice bounds out of range", "index out of range"}

\* C29: traceString, about to truncate a string that leaves fewer than
\* traceBytesPerNumber bytes of the new buffer free, has written a length
\* greater than the length of the string and panicked on s[:slen].
C29_SlicePanic ==
    /\ fatal = "slice bounds out of range"
    /\ \E bi \in TextEvents :
           LET e == bufs[bi[1]].ev[bi[2]]
           IN /\ e.ev = traceEvString
              /\ bi[2] = Len(bufs[bi[1]].ev)
              /\ TextLen(e) > Len(trace.strings.m[e.vals[1]].s)
              /\ bufs[bi[1]].pos < BufLen

\* C30: while the process runs, the length varint of every String event and
\* of every UserLog value in a buffer is the number of bytes copied after it.
C30_LengthIsCopied ==
    fatal = "" => \A bi \in TextEvents :
                     TextLen(bufs[bi[1]].ev[bi[2]]) = bufs[bi[1]].ev[bi[2]].raw

\* C30: trace_userLog has truncated a message: the length it wrote is the
\* room that was left before the length was written, and the bytes copied
\* after it, up to the end of the buffer, are fewer.
C30_ShortCopy ==
    /\ fatal = ""
    /\ out.op = "trace_userLog"
    /\ \E bi \in TextEvents :
           LET e == bufs[bi[1]].ev[bi[2]]
           IN /\ e.ev = traceEvUserLog
              /\ bufs[bi[1]].pos = BufLen
              /\ e.raw = TextLen(e) - VarintLen(TextLen(e))
              /\ e.raw > 0

\* StartTrace succeeds in this step.
StartStep == ~trace.enabled /\ trace'.enabled

RECURSIVE FreshEvents(_)
\* The events this step wrote to the buffers bs, in order: all events of a
\* buffer the main processor did not hold before, the new ones of the one it
\* held.
FreshEvents(bs) ==
    IF bs = <<>> THEN <<>>
    ELSE (IF Head(bs) = 0 THEN <<>>
          ELSE IF Head(bs) = tracebuf[MainP]
          THEN Suffix(bufs'[Head(bs)].ev, Len(bufs[Head(bs)].ev))
          ELSE bufs'[Head(bs)].ev)
         \o FreshEvents(Tail(bs))

\* What the starting thread wrote in this step: to the buffers it queued and
\* to the one it holds at the end.
StartWritten ==
    FreshEvents(Suffix(FullList', Len(FullList))
                \o (IF tracebuf'[MainP] = tracebuf[MainP] /\ Len(FullList') > Len(FullList)
                    THEN <<>> ELSE <<tracebuf'[MainP]>>))

\* The type of event e and the goroutine or thread it names (0 for a String
\* event).
Shape(e) == IF e.ev = traceEvString THEN <<e.ev, 0>> ELSE <<e.ev, e.vals[2]>>

\* The events of evs but the Batch events, by Shape.
Shapes(evs) ==
    LET body == SelectSeq(evs, LAMBDA e : e.ev # traceEvBatch)
    IN [i \in 1 .. Len(body) |-> Shape(body[i])]

RECURSIVE SnapshotShapes(_)
\* The events StartTrace owes the goroutines gs.
SnapshotShapes(gs) ==
    IF gs = <<>> THEN <<>>
    ELSE (IF readgstatus(Head(gs)) = "_Gdead" THEN <<>>
          ELSE <<<<traceEvGoCreate, Head(gs)>>>>
               \o (IF readgstatus(Head(gs)) = "_Gwaiting"
                   THEN <<<<traceEvGoWaiting, Head(gs)>>>> ELSE <<>>)
               \o (IF readgstatus(Head(gs)) = "_Gsyscall"
                   THEN <<<<traceEvGoInSyscall, Head(gs)>>>> ELSE <<>>))
         \o SnapshotShapes(Tail(gs))

\* What a successful StartTrace that found the goroutines gs has done.
StartedWith(gs) ==
    /\ Shapes(StartWritten) =
           SnapshotShapes(gs)
           \o << <<traceEvProcStart, 0>>, <<traceEvGoStartLocal, MainG>> >>
           \o [i \in 1 .. Len(gcMarkWorkerModeStrings) |-> <<traceEvString, 0>>]
    /\ trace'.ticksStart = cputicks' /\ trace'.timeStart = nanotime'
    /\ \A i \in 1 .. Len(gs) :
           IF readgstatus(gs[i]) = "_Gdead" THEN gstate'[gs[i]] = gstate[gs[i]]
           ELSE gstate'[gs[i]] =
                    [traceseq |-> IF gs[i] = MainG
                                     \/ readgstatus(gs[i]) \in {"_Gwaiting", "_Gsyscall"}
                                  THEN 1 ELSE 0,
                     tracelastp |-> MainP]
    /\ trace'.buf = trace.buf /\ trace'.cpuLogBuf = trace.cpuLogBuf
    /\ \A q \in Procs \ {MainP} :
           /\ tracebuf'[q] = tracebuf[q]
           /\ tracebuf[q] # 0 => bufs'[tracebuf[q]] = bufs[tracebuf[q]]

\* C31: a StartTrace that succeeds writes, in this order and on the starting
\* thread's processor only, for every goroutine that is not dead its GoCreate
\* event, followed by GoWaiting if it is waiting or GoInSyscall if it is in a
\* system call (nothing for a dead one), then ProcStart and the GoStart event
\* of the starting goroutine (the Local form, the snapshot having set its
\* tracelastp), and only then the String events written once trace.enabled is
\* set; ticksStart and timeStart are the clocks at the end of the step; and
\* no other processor's buffer, nor trace.buf, is written in the step.
C31_Snapshot ==
    [][/\ DoStartTrace({Reader1}, SnapSessions) /\ StartStep => StartedWith(AllGs({Reader1}))
       /\ \A more \in SnapMore :
              DoStartTraceAll(more, SnapSessions) /\ StartStep =>
                  StartedWith(AllGs({Reader1}) \o more)]_vars

\* C31: StartTrace has found the reader waiting, a goroutine in a system call
\* and, before it, a dead one: the buffers hold GoWaiting for the reader and
\* GoInSyscall for the other, and no event of the dead goroutine.
C31_AllStatuses ==
    /\ trace.enabled /\ out.op = "StartTrace"
    /\ reader[Reader1].pc = "parked"
    /\ gstate[Reader1].traceseq = 1 /\ gstate[SyscallG].traceseq = 1
    /\ gstate[SyscallG].tracelastp = MainP /\ gstate[DeadG].tracelastp = -1
    /\ \E b \in BufIds : \E i \in 1 .. Len(bufs[b].ev) :
           bufs[b].ev[i].ev = traceEvGoInSyscall /\ bufs[b].ev[i].vals[2] = SyscallG
    /\ \E b \in BufIds : \E i \in 1 .. Len(bufs[b].ev) :
           bufs[b].ev[i].ev = traceEvGoWaiting /\ bufs[b].ev[i].vals[2] = Reader1

\* The CPUSample events among evs whose processor and goroutine arguments are
\* a pair of X.
SampleEvents(evs, X) ==
    SelectSeq(evs, LAMBDA e : e.ev = traceEvCPUSample /\ <<e.vals[3], e.vals[4]>> \in X)

RECURSIVE SampleCount(_, _, _, _)
\* How many of them the buffers 1 .. k of bs hold, the buffer skip left out.
SampleCount(bs, k, skip, X) ==
    IF k = 0 THEN 0
    ELSE (IF k = skip THEN 0 ELSE Len(SampleEvents(bs[k].ev, X)))
         + SampleCount(bs, k - 1, skip, X)

\* Every pair of arguments.
AnyPair == (0 .. (U64 - 1)) \X (0 .. (U64 - 1))

\* The header words a sample on processor pp must carry, and the processor
\* argument its event must carry.
HeaderOf(pp) == IF pp = traceGlobProc THEN 2 ELSE 2 * pp + 1
PidOf(hdr0) == IF hdr0 = 2 THEN U64 - 1 ELSE (hdr0 - 1) \div 2

\* This step drains the ring into CPUSample events: ReadTrace (which first
\* takes back the buffer the reader held) or StopTrace did.
ReadsRing ==
    /\ ~trace.cpuLogRead.isnil /\ ~trace'.cpuLogRead.isnil
    /\ trace.cpuLogRead.data # <<>> \/ trace.cpuLogRead.overflow > 0
    /\ trace'.cpuLogRead.data = <<>> /\ trace'.cpuLogRead.overflow = 0
    /\ fatal' = ""
TakenBack == IF trace'.enabled = trace.enabled THEN trace.reading ELSE 0

\* C32: the header word traceCPUSample writes for a sample on processor pid is
\* (pid << 1) | 1, and 0b10 for a sample without a processor, so it is never
\* zero and no record of the ring looks like an overflow record; when the ring
\* is read, every record of it yields one CPUSample event that carries pid, or
\* max-uint64 for a sample without a processor, and its goroutine, and the
\* overflow record yields none.
C32_HeaderRoundTrip ==
    [][/\ \A i \in 1 .. Len(trace'.cpuLogRead.data) :
              /\ trace'.cpuLogRead.data[i].hdr0 # 0
              /\ ~traceReadCPUEmpty(trace'.cpuLogRead.data[i])
       /\ \A pp \in Procs \cup {traceGlobProc} : \A gp \in {0, MainG} :
              DoCPUSampleOn(pp, gp, ProfSamples)
              /\ Len(trace'.cpuLogRead.data) > Len(trace.cpuLogRead.data)
              => /\ trace'.cpuLogRead.data[Len(trace'.cpuLogRead.data)].hdr0 = HeaderOf(pp)
                 /\ trace'.cpuLogRead.data[Len(trace'.cpuLogRead.data)].hdr1 = gp
                 /\ traceReadCPUPid(trace'.cpuLogRead.data[Len(trace'.cpuLogRead.data)])
                        = (IF pp = traceGlobProc THEN U64 - 1 ELSE pp)
       /\ ReadsRing
          => /\ SampleCount(bufs', MaxBufs, 0, AnyPair)
                  = SampleCount(bufs, MaxBufs, TakenBack, AnyPair) + Len(trace.cpuLogRead.data)
             /\ \A i \in 1 .. Len(trace.cpuLogRead.data) :
                    LET x == <<PidOf(trace.cpuLogRead.data[i].hdr0), trace.cpuLogRead.data[i].hdr1>>
                    IN SampleCount(bufs', MaxBufs, 0, {x})
                           = SampleCount(bufs, MaxBufs, TakenBack, {x})
                             + Len(SelectSeq(trace.cpuLogRead.data,
                                             LAMBDA r : <<PidOf(r.hdr0), r.hdr1>> = x))]_vars

\* C32: three samples were taken and nothing else was emitted; the ring had
\* room for one at a time, so one was lost and an overflow record read; the
\* buffers hold the events of the other two, one taken on a processor and one
\* without, and no third event.
C32_BothKindsRead ==
    /\ trace.enabled
    /\ hist.emits = ProfSamples
    /\ ~sysexit
    /\ cputicks = traceTickDiv
    /\ \A b \in BufIds : \A i \in 1 .. Len(bufs[b].ev) : bufs[b].ev[i].ev # traceEvHeapAlloc
    /\ trace.cpuLogRead.data = <<>> /\ trace.cpuLogRead.overflow = 0
    /\ SampleCount(bufs, MaxBufs, 0, AnyPair) = 2
    /\ SampleCount(bufs, MaxBufs, 0, {U64 - 1} \X {0, MainG}) = 1
    /\ SampleCount(bufs, MaxBufs, 0, Procs \X {0, MainG}) = 1

\* The events traceEventLocked writes: all but the batch headers, the String
\* events and the stack records.
LockedEvent(e) == e.ev \notin {traceEvBatch, traceEvString, traceEvStack, traceEvFrequency}

\* The numbers traceEventLocked wrote for event e: the tick difference, the
\* arguments and the stack field. trace_userLog writes the length of the
\* message after them.
Numbers(e) ==
    IF e.ev = traceEvUserLog /\ Len(e.vals) > 4 THEN SubSeq(e.vals, 1, 4) ELSE e.vals

\* The argument count of e: its arguments, and 1 for its stack field, 3 at most.
ArgCount(e) == IF Len(Numbers(e)) - 1 > 3 THEN 3 ELSE Len(Numbers(e)) - 1

\* Event i of buffer b may have been cut short by the abort of the process.
Aborted(b, i) == fatal # "" /\ i = Len(bufs[b].ev)

\* C33: the header byte of every event written by traceEventLocked is
\* event_type | (n << 6) with n = min(3, number of arguments + 1 if the event
\* has a stack field); a length byte follows exactly when n = 3, and it holds
\* the number of bytes of the event after it, which is below 128; an event
\* longer than maxSize aborts the process.
C33_HeaderAndLength ==
    \A b \in BufIds : \A i \in 1 .. Len(bufs[b].ev) :
        LET e == bufs[b].ev[i]
        IN LockedEvent(e) =>
               /\ e.hdr = e.ev + ArgCount(e) * 64
               /\ e.hdr % 64 = e.ev /\ e.hdr \div 64 = ArgCount(e)
               /\ e.lenbyte <=> ArgCount(e) = 3
               /\ ArgCount(e) = 3 /\ ~Aborted(b, i)
                  => e.len = SumVarint(Numbers(e)) /\ e.len < 128
               /\ 1 + (IF e.lenbyte THEN 1 ELSE 0) + SumVarint(Numbers(e))
                      > 2 + 5 * traceBytesPerNumber
                  /\ e.ev # traceEvUserLog
                  => Aborted(b, i)

\* C33: an event with 24 two-byte arguments and a stack field was written, its
\* length byte holds the 50 bytes that follow it; events with fewer than
\* three arguments were written without a length byte; then the process
\* aborted on an event with 25 such arguments, which is longer than maxSize.
C33_TooLong ==
    /\ fatal = "invalid length of trace event"
    /\ tracebuf[MainP] # 0
    /\ LET evs == bufs[tracebuf[MainP]].ev
       IN /\ evs # <<>>
          /\ evs[Len(evs)].hdr = traceEvHeapAlloc + 3 * 64
          /\ evs[Len(evs)].lenbyte
          /\ Len(evs[Len(evs)].vals) = 27
          /\ EventSize(evs[Len(evs)]) > 2 + 5 * traceBytesPerNumber
    /\ \E b \in BufIds : \E i \in 1 .. Len(bufs[b].ev) :
           /\ bufs[b].ev[i].ev = traceEvHeapAlloc
           /\ Len(bufs[b].ev[i].vals) = 26
           /\ bufs[b].ev[i].lenbyte /\ bufs[b].ev[i].len = 50
    /\ \E b \in BufIds : \E i \in 1 .. Len(bufs[b].ev) :
           /\ LockedEvent(bufs[b].ev[i])
           /\ bufs[b].ev[i].hdr \div 64 \in {1, 2}
           /\ ~bufs[b].ev[i].lenbyte

\* A step in which StopTrace starts to wait on trace.shutdownSema.
StopWaitStep == stopper # "wait" /\ stopper' = "wait"

\* C34: the shutdown semaphore is posted once per StopTrace that waits on it:
\* its count never exceeds 1, and it is 0 whenever tracing is enabled and
\* whenever StopTrace starts waiting, so that no StopTrace passes it on a post
\* left over from an earlier session.
C34_PostedOnce ==
    [][/\ trace'.shutdownSema <= 1
       /\ trace'.enabled => trace'.shutdownSema = 0
       /\ StopWaitStep => trace'.shutdownSema = 0]_vars

\* C34: StopTrace of the second session starts waiting with a post of the
\* first session still in the semaphore: the reader called ReadTrace once more
\* after it had returned nil and before StopTrace had reset shutdown.
C34_StalePost ==
    /\ hist.session = 2
    /\ stopper = "wait"
    /\ trace.shutdown
    /\ trace.shutdownSema = 1
    /\ hist.nils = 0

============================================================================
